---- MODULE Spec2Model ----
(***************************************************************************)
(* A model of wasi_glk.c, the WASI implementation of the Glk API: the      *)
(* object registry (windows, streams, file references kept in intrusive    *)
(* doubly-linked lists), the stream operations, the JSON frames written to *)
(* standard output and the blocking event wait glk_select.                 *)
(*                                                                         *)
(* The heap is modelled as blocks ("slots") per struct type.  A handle is  *)
(* a block address; free() only removes the block from the live set and    *)
(* leaves its bytes in place, and malloc() may hand out any free block, so *)
(* a dangling handle reads the stale bytes or the block's next occupant.   *)
(* Dereferencing a freed block is undefined behaviour: the model lets the  *)
(* call either act on the stale bytes (pc becomes "undefined") or crash    *)
(* (pc becomes "aborted"), and follows the process no further.             *)
(***************************************************************************)
EXTENDS Integers, Sequences, FiniteSets, TLC

NULL == 0

\* Bounds of the model.
MaxWin == 2
MaxStr == 2
MaxFref == 2
MaxCreate == 2
MaxCap == 4                  \* the largest of the caller's small arrays

MaxReq == 1                  \* windows opened by the engine that requests input
MaxOpen == 1                 \* streams opened by the engine that writes and reads data
MaxCount == 3                \* bytes written to, and bytes read from, one stream
MaxUni == 1                  \* the size of the caller's glui32 array
MaxLen == 3                  \* the longest data of a round trip

\* char input[1024] in glk_select()
InputBufSize == 1024

WinSlots == 1..MaxWin
StrSlots == 1..MaxStr
FrefSlots == 1..MaxFref

\* The caller's char arrays: array b holds Cap(b) bytes.  There is one of each
\* size 0..MaxCap, and one that is larger than glk_select()'s input buffer.
Bufs == 1..(MaxCap + 2)
BigBuf == MaxCap + 2
Cap(b) == IF b = BigBuf THEN InputBufSize + 1 ELSE b - 1

\* A glui32 is represented by the int32 with the same bits (0xfffffffa is -6), so
\* that + and - wrap as in C; unsigned order is then:
ULt(a, b) == IF (a < 0) = (b < 0) THEN a < b ELSE b < 0
UGt(a, b) == ULt(b, a)

VARIABLES
    call,                    \* the function called last
    pc,                      \* "start", "running", "exited", "undefined", "aborted"
    winmem, winlive,         \* window blocks and the allocated ones
    strmem, strlive,         \* stream blocks and the allocated ones
    frefmem, freflive,       \* file reference blocks and the allocated ones
    gli_rootwin, gli_windowlist, gli_streamlist, gli_currentstr, gli_filereflist,
    gli_window_id_counter, gli_stream_id_counter, gli_fileref_id_counter,
    bufmem,                  \* the bytes of the caller's arrays (of the large one, those
                             \* up to the last one stored; the rest are 0)
    pending,                 \* the bytes of standard input read ahead of a line's end
    stdout,                  \* what has been written to standard output so far
    lastOut,                 \* the frames the last call wrote
    event,                   \* the caller's event_t, as the last event call left it
    rbuf,                    \* the array the caller gives to the calls that read
    result,                  \* the stream_result_t the caller gives to the closes
    ret,                     \* the handle or number the last call returned
    prog,                    \* the engine's own program, when it follows one
    files                    \* the names of the files that exist

windows == <<winmem, winlive, gli_rootwin, gli_windowlist, gli_window_id_counter>>
streams == <<strmem, strlive, gli_streamlist, gli_currentstr, gli_stream_id_counter>>
filerefs == <<frefmem, freflive, gli_filereflist, gli_fileref_id_counter>>
registry == <<windows, streams, filerefs>>
caller == <<bufmem, event, rbuf, result>>
vars == <<pc, call, registry, caller, pending, stdout, lastOut, ret, prog, files>>

----------------------------------------------------------------------------
\* struct glk_window_struct after memset(0)
ZeroWindow ==
    [rock |-> 0, type |-> 0, id |-> 0,
     char_request |-> 0, line_request |-> 0,
     char_request_uni |-> 0, line_request_uni |-> 0,
     line_buffer |-> NULL, line_buffer_uni |-> NULL, line_buflen |-> 0,
     str |-> NULL, echostr |-> NULL, prev |-> NULL, next |-> NULL]

\* struct glk_stream_struct after memset(0)
ZeroStream ==
    [rock |-> 0, id |-> 0, type |-> 0, readable |-> 0, writable |-> 0,
     buf |-> NULL, buf_uni |-> NULL, buflen |-> 0, bufptr |-> 0, is_unicode |-> 0,
     file |-> NULL, win |-> NULL, readcount |-> 0, writecount |-> 0,
     prev |-> NULL, next |-> NULL]

\* struct glk_fileref_struct after memset(0)
ZeroFileref ==
    [rock |-> 0, id |-> 0, filename |-> NULL, usage |-> 0, textmode |-> 0,
     prev |-> NULL, next |-> NULL]

\* event_t as glk_select() and glk_select_poll() first fill it
NoEvent == [type |-> "evtype_None", win |-> NULL, val1 |-> 0, val2 |-> 0]

----------------------------------------------------------------------------
\* Standard output: one JSON frame per line.

Frame(type, id, op, arg) == [type |-> type, id |-> id, op |-> op, arg |-> arg]

NoOutput == [first |-> "none", last |-> "none", ninit |-> 0, nexit |-> 0, afterExit |-> FALSE]

\* The record of standard output after more frames are written to it.
RECURSIVE Written(_, _)
Written(log, frames) ==
    IF frames = <<>> THEN log
    ELSE LET f == Head(frames) IN
         Written([first |-> IF log.first = "none" THEN f.type ELSE log.first,
                  last |-> f.type,
                  ninit |-> log.ninit + (IF f.type = "init" THEN 1 ELSE 0),
                  nexit |-> log.nexit + (IF f.type = "exit" THEN 1 ELSE 0),
                  afterExit |-> log.afterExit \/ log.nexit > 0],
                 Tail(frames))

\* json_reset(); json_append(...); json_flush(), once per frame of the call.
json_flush(frames) ==
    /\ lastOut' = frames
    /\ stdout' = Written(stdout, frames)

\* What a use of a freed block may do: act on the stale bytes, or crash.
Outcomes(dangling) == IF dangling THEN {"stale", "crash"} ELSE {"defined"}

\* The process dies in the call: nothing is stored and nothing more is written.
Crash ==
    /\ pc' = "aborted"
    /\ ret' = 0
    /\ lastOut' = <<>>
    /\ UNCHANGED <<registry, caller, pending, stdout, prog, files>>

\* pc after a call that returns to the engine.
Returned(dangling) == pc' = IF dangling THEN "undefined" ELSE pc

----------------------------------------------------------------------------
NoProgram == [name |-> "any", buf |-> NULL, data |-> <<>>]

InitState ==
    /\ pc = "start"
    /\ call = "none"
    /\ winmem = [w \in WinSlots |-> ZeroWindow]
    /\ winlive = {}
    /\ strmem = [s \in StrSlots |-> ZeroStream]
    /\ strlive = {}
    /\ frefmem = [f \in FrefSlots |-> ZeroFileref]
    /\ freflive = {}
    /\ gli_rootwin = NULL
    /\ gli_windowlist = NULL
    /\ gli_streamlist = NULL
    /\ gli_currentstr = NULL
    /\ gli_filereflist = NULL
    /\ gli_window_id_counter = 1
    /\ gli_stream_id_counter = 1
    /\ gli_fileref_id_counter = 1
    /\ bufmem = [b \in Bufs |-> IF b = BigBuf THEN <<>> ELSE [i \in 1..Cap(b) |-> 0]]
    /\ pending = <<>>
    /\ stdout = NoOutput
    /\ lastOut = <<>>
    /\ event = NoEvent
    /\ rbuf = [i \in 1..MaxCap |-> 0]
    /\ result = [readcount |-> 0, writecount |-> 0]
    /\ ret = 0

Init == InitState /\ prog = NoProgram /\ files = {}

\* main() without its json_flush().
main_without_init ==
    /\ pc = "start"
    /\ call' = "main"
    /\ pc' = "running"
    /\ json_flush(<<>>)
    /\ ret' = 0
    /\ UNCHANGED <<registry, caller, pending, prog, files>>

\* main() up to the call of glk_main(): the init frame.
main ==
    /\ pc = "start"
    /\ call' = "main"
    /\ pc' = "running"
    /\ json_flush(<<Frame("init", 0, "", 0)>>)
    /\ ret' = 0
    /\ UNCHANGED <<registry, caller, pending, prog, files>>

\* glk_exit() without its exit(0).
glk_exit_returns ==
    /\ pc = "running"
    /\ call' = "glk_exit"
    /\ pc' = pc
    /\ json_flush(<<Frame("exit", 0, "", 0)>>)
    /\ ret' = 0
    /\ UNCHANGED <<registry, caller, pending, prog, files>>

\* glk_exit(), called by the engine or by main() when glk_main() returns.
glk_exit ==
    /\ pc = "running"
    /\ call' = "glk_exit"
    /\ pc' = "exited"
    /\ json_flush(<<Frame("exit", 0, "", 0)>>)
    /\ ret' = 0
    /\ UNCHANGED <<registry, caller, pending, prog, files>>

----------------------------------------------------------------------------
\* Inputs of the calls.
WinTypes == {3}             \* wintype_TextBuffer
Rocks == {5}

\* malloc(): NULL, a block that was freed, or a block never used before (these
\* are alike, so the lowest stands for all of them).  A used block keeps its id.
Malloc(mem, live) ==
    LET free == DOMAIN mem \ live
        used == {b \in free : mem[b].id # 0}
        fresh == free \ used
    IN used \cup {b \in fresh : \A c \in fresh : b <= c} \cup {NULL}

\* A call that writes no frame and stores nothing in the caller's memory.
Silent ==
    /\ lastOut' = <<>>
    /\ UNCHANGED <<stdout, caller, pending, prog, files>>

\* The stream side of the registry, as one value the helpers transform.
Streams ==
    [mem |-> strmem, live |-> strlive, list |-> gli_streamlist,
     cur |-> gli_currentstr, ctr |-> gli_stream_id_counter]

SetStreams(S) ==
    /\ strmem' = S.mem
    /\ strlive' = S.live
    /\ gli_streamlist' = S.list
    /\ gli_currentstr' = S.cur
    /\ gli_stream_id_counter' = S.ctr

\* gli_stream_new(type, readable, writable, rock), malloc() having returned p.
gli_stream_new(S, p, type, readable, writable, rock) ==
    IF p = NULL THEN S
    ELSE LET rec == [ZeroStream EXCEPT !.rock = rock, !.id = S.ctr, !.type = type,
                                       !.readable = readable, !.writable = writable,
                                       !.next = S.list]
             mem1 == [S.mem EXCEPT ![p] = rec]
             mem2 == IF S.list # NULL THEN [mem1 EXCEPT ![S.list].prev = p] ELSE mem1
         IN [S EXCEPT !.mem = mem2, !.live = S.live \cup {p}, !.list = p, !.ctr = S.ctr + 1]

\* gli_stream_open_window(win), malloc() having returned p.
gli_stream_open_window(S, p, win) ==
    LET S1 == gli_stream_new(S, p, 0, 0, 1, 0)
    IN IF p = NULL THEN S1 ELSE [S1 EXCEPT !.mem[p].win = win]

\* The body of glk_stream_close(str, result) for str # NULL, on the bytes of
\* block str whether or not it is still allocated.
StreamClosed(S, str) ==
    LET mem0 == IF S.mem[str].file # NULL THEN [S.mem EXCEPT ![str].file = NULL] ELSE S.mem
        cur1 == IF S.cur = str THEN NULL ELSE S.cur
        p == mem0[str].prev
        n == mem0[str].next
        mem1 == IF p # NULL THEN [mem0 EXCEPT ![p].next = n] ELSE mem0
        list1 == IF p # NULL THEN S.list ELSE n
        mem2 == IF n # NULL THEN [mem1 EXCEPT ![n].prev = p] ELSE mem1
    IN [S EXCEPT !.mem = mem2, !.live = S.live \ {str}, !.list = list1, !.cur = cur1]

\* The window list after win->next = gli_windowlist etc. in glk_window_open().
WindowLinked(mem, p, rec) ==
    LET mem1 == [mem EXCEPT ![p] = rec]
    IN IF gli_windowlist # NULL THEN [mem1 EXCEPT ![gli_windowlist].prev = p] ELSE mem1

\* glk_window_open(split, method, size, wintype, rock); p and q are what the two
\* malloc() calls return.
glk_window_open(p, q, wintype, rock) ==
    /\ pc = "running"
    /\ call' = "glk_window_open"
    /\ gli_window_id_counter <= MaxCreate
    /\ gli_stream_id_counter <= MaxCreate
    /\ ret' = p
    /\ pc' = pc
    /\ UNCHANGED <<filerefs, caller, pending, prog, files>>
    /\ IF p = NULL
       THEN /\ lastOut' = <<>>
            /\ UNCHANGED <<windows, streams, stdout>>
       ELSE LET id == gli_window_id_counter
                rec == [ZeroWindow EXCEPT !.rock = rock, !.type = wintype, !.id = id,
                                          !.next = gli_windowlist, !.str = q]
            IN /\ winmem' = WindowLinked(winmem, p, rec)
               /\ winlive' = winlive \cup {p}
               /\ gli_windowlist' = p
               /\ gli_window_id_counter' = id + 1
               /\ SetStreams(gli_stream_open_window(Streams, q, p))
               /\ gli_rootwin' = IF gli_rootwin = NULL THEN p ELSE gli_rootwin
               /\ json_flush(<<Frame("update", id, "create", wintype)>>)

\* The window list after glk_window_close() has unlinked block win.
WindowUnlinked(mem, win) ==
    LET p == mem[win].prev
        n == mem[win].next
        mem1 == IF p # NULL THEN [mem EXCEPT ![p].next = n] ELSE mem
        mem2 == IF n # NULL THEN [mem1 EXCEPT ![n].prev = p] ELSE mem1
    IN [mem |-> mem2, list |-> IF p # NULL THEN gli_windowlist ELSE n]

\* What glk_window_close(win, result) does to the registry for win # NULL, on the
\* bytes of block win whether or not it is still allocated.
WindowClosed(win) ==
    LET str == winmem[win].str
        S1 == IF str # NULL
              THEN StreamClosed([Streams EXCEPT !.mem[str].win = NULL], str)
              ELSE Streams
        W1 == WindowUnlinked([winmem EXCEPT ![win].str = NULL], win)
    IN /\ SetStreams(S1)
       /\ winmem' = W1.mem
       /\ winlive' = winlive \ {win}
       /\ gli_windowlist' = W1.list
       /\ gli_rootwin' = IF gli_rootwin = win THEN NULL ELSE gli_rootwin
       /\ UNCHANGED gli_window_id_counter

\* result->readcount and result->writecount as the closes fill them from the
\* stream block str; glk_window_close() stores zeros when win->str is NULL.
Counts(str) ==
    IF str = NULL THEN [readcount |-> 0, writecount |-> 0]
    ELSE [readcount |-> strmem[str].readcount, writecount |-> strmem[str].writecount]

\* The freed blocks a call of glk_window_close(win) would use.
WindowCloseDangling(win) ==
    \/ win \notin winlive
    \/ (winmem[win].str # NULL /\ winmem[win].str \notin strlive)

\* glk_window_close(win, result), result # NULL
glk_window_close(win) ==
    /\ pc = "running"
    /\ call' = "glk_window_close"
    /\ IF win = NULL
       THEN /\ ret' = 0
            /\ Silent
            /\ UNCHANGED <<pc, registry>>
       ELSE \E o \in Outcomes(WindowCloseDangling(win)) :
              IF o = "crash" THEN Crash
              ELSE /\ result' = Counts(winmem[win].str)
                   /\ WindowClosed(win)
                   /\ Returned(WindowCloseDangling(win))
                   /\ ret' = 0
                   /\ lastOut' = <<>>
                   /\ UNCHANGED <<filerefs, stdout, bufmem, event, rbuf, pending, prog, files>>

\* glk_stream_close(str, result), result # NULL
glk_stream_close(str) ==
    /\ pc = "running"
    /\ call' = "glk_stream_close"
    /\ IF str = NULL
       THEN /\ ret' = 0
            /\ Silent
            /\ UNCHANGED <<pc, registry>>
       ELSE \E o \in Outcomes(str \notin strlive) :
              IF o = "crash" THEN Crash
              ELSE /\ result' = Counts(str)
                   /\ SetStreams(StreamClosed(Streams, str))
                   /\ Returned(str \notin strlive)
                   /\ ret' = 0
                   /\ lastOut' = <<>>
                   /\ UNCHANGED <<windows, filerefs, stdout, bufmem, event, rbuf, pending,
                                  prog, files>>

\* The file modes and the flag of a file usage (glk.h).
filemode_Write == 1
filemode_Read == 2
filemode_ReadWrite == 3
filemode_WriteAppend == 5
fileusage_TextMode == 256
FileModes == {filemode_Write, filemode_Read, filemode_ReadWrite, filemode_WriteAppend}

\* glk_stream_open_memory(buf, buflen, fmode, rock), malloc() having returned p.
glk_stream_open_memory(p, buf, buflen, fmode, rock) ==
    /\ pc = "running"
    /\ call' = "glk_stream_open_memory"
    /\ gli_stream_id_counter <= MaxCreate
    /\ LET readable == IF fmode \in {filemode_Read, filemode_ReadWrite} THEN 1 ELSE 0
           writable == IF fmode \in {filemode_Write, filemode_ReadWrite} THEN 1 ELSE 0
           S1 == gli_stream_new(Streams, p, 1, readable, writable, rock)
       IN SetStreams(IF p = NULL THEN S1
                     ELSE [S1 EXCEPT !.mem[p].buf = buf, !.mem[p].buflen = buflen,
                                     !.mem[p].bufptr = 0, !.mem[p].is_unicode = 0])
    /\ ret' = p
    /\ Silent
    /\ UNCHANGED <<pc, windows, filerefs>>

\* glk_set_window(win)
glk_set_window(win) ==
    /\ pc = "running"
    /\ call' = "glk_set_window"
    /\ \E o \in Outcomes(win # NULL /\ win \notin winlive) :
         IF o = "crash" THEN Crash
         ELSE /\ gli_currentstr' = IF win # NULL THEN winmem[win].str ELSE NULL
              /\ Returned(win # NULL /\ win \notin winlive)
              /\ ret' = 0
              /\ Silent
              /\ UNCHANGED <<windows, filerefs, strmem, strlive, gli_streamlist,
                             gli_stream_id_counter>>

\* glk_stream_set_current(str)
glk_stream_set_current(str) ==
    /\ pc = "running"
    /\ call' = "glk_stream_set_current"
    /\ gli_currentstr' = str
    /\ ret' = 0
    /\ Silent
    /\ UNCHANGED <<pc, windows, filerefs, strmem, strlive, gli_streamlist,
                   gli_stream_id_counter>>

\* glk_window_set_echo_stream(win, str)
glk_window_set_echo_stream(win, str) ==
    /\ pc = "running"
    /\ call' = "glk_window_set_echo_stream"
    /\ \E o \in Outcomes(win # NULL /\ win \notin winlive) :
         IF o = "crash" THEN Crash
         ELSE /\ winmem' = IF win # NULL THEN [winmem EXCEPT ![win].echostr = str] ELSE winmem
              /\ Returned(win # NULL /\ win \notin winlive)
              /\ ret' = 0
              /\ Silent
              /\ UNCHANGED <<winlive, gli_rootwin, gli_windowlist, gli_window_id_counter,
                             streams, filerefs>>

----------------------------------------------------------------------------
\* File references.  A file name is a number standing for the path string.
FileNames == {1}
Usages == {257}              \* fileusage_SavedGame | fileusage_TextMode

\* gli_fileref_new(filename, usage, rock): malloc() returned p, and strdup()
\* succeeded or not.
gli_fileref_new(p, dup, filename, usage, rock) ==
    IF p = NULL
    THEN /\ ret' = NULL
         /\ UNCHANGED filerefs
    ELSE LET rec == [ZeroFileref EXCEPT !.rock = rock, !.id = gli_fileref_id_counter,
                         !.usage = usage,
                         !.textmode = IF (usage \div fileusage_TextMode) % 2 = 1 THEN 1 ELSE 0]
         IN /\ gli_fileref_id_counter' = gli_fileref_id_counter + 1
            /\ IF ~dup
               THEN /\ frefmem' = [frefmem EXCEPT ![p] = rec]
                    /\ ret' = NULL
                    /\ UNCHANGED <<freflive, gli_filereflist>>
               ELSE LET mem1 == [frefmem EXCEPT ![p] = [rec EXCEPT !.filename = filename,
                                                                  !.next = gli_filereflist]]
                    IN /\ frefmem' = IF gli_filereflist # NULL
                                     THEN [mem1 EXCEPT ![gli_filereflist].prev = p] ELSE mem1
                       /\ freflive' = freflive \cup {p}
                       /\ gli_filereflist' = p
                       /\ ret' = p

\* glk_fileref_create_by_name(usage, name, rock)
glk_fileref_create_by_name(p, dup, usage, name, rock) ==
    /\ pc = "running"
    /\ call' = "glk_fileref_create_by_name"
    /\ gli_fileref_id_counter <= MaxCreate
    /\ gli_fileref_new(p, dup, name, usage, rock)
    /\ Silent
    /\ UNCHANGED <<pc, windows, streams>>

\* The file reference list after glk_fileref_destroy() has unlinked block fref.
FilerefUnlinked(mem, fref) ==
    LET p == mem[fref].prev
        n == mem[fref].next
        mem1 == IF p # NULL THEN [mem EXCEPT ![p].next = n] ELSE mem
        mem2 == IF n # NULL THEN [mem1 EXCEPT ![n].prev = p] ELSE mem1
    IN [mem |-> mem2, list |-> IF p # NULL THEN gli_filereflist ELSE n]

\* glk_fileref_destroy() removing the file as well.
destroy_removing_file(fref) ==
    /\ pc = "running"
    /\ call' = "glk_fileref_destroy"
    /\ fref # NULL
    /\ fref \in freflive
    /\ frefmem' = FilerefUnlinked(frefmem, fref).mem
    /\ gli_filereflist' = FilerefUnlinked(frefmem, fref).list
    /\ freflive' = freflive \ {fref}
    /\ files' = files \ {frefmem[fref].filename}
    /\ ret' = 0
    /\ lastOut' = <<>>
    /\ UNCHANGED <<pc, gli_fileref_id_counter, windows, streams, stdout, caller, pending,
                   prog>>

\* glk_fileref_destroy(fref)
glk_fileref_destroy(fref) ==
    /\ pc = "running"
    /\ call' = "glk_fileref_destroy"
    /\ IF fref = NULL
       THEN /\ ret' = 0
            /\ Silent
            /\ UNCHANGED <<pc, registry>>
       ELSE \E o \in Outcomes(fref \notin freflive) :
              IF o = "crash" THEN Crash
              ELSE /\ frefmem' = FilerefUnlinked(frefmem, fref).mem
                   /\ gli_filereflist' = FilerefUnlinked(frefmem, fref).list
                   /\ freflive' = freflive \ {fref}
                   /\ UNCHANGED gli_fileref_id_counter
                   /\ Returned(fref \notin freflive)
                   /\ ret' = 0
                   /\ Silent
                   /\ UNCHANGED <<windows, streams>>

\* glk_fileref_delete_file(fref): remove(fref->filename)
glk_fileref_delete_file(fref) ==
    /\ pc = "running"
    /\ call' = "glk_fileref_delete_file"
    /\ IF fref = NULL
       THEN /\ ret' = 0
            /\ Silent
            /\ UNCHANGED <<pc, registry>>
       ELSE \E o \in Outcomes(fref \notin freflive) :
              IF o = "crash" THEN Crash
              ELSE /\ files' = files \ {frefmem[fref].filename}
                   /\ Returned(fref \notin freflive)
                   /\ ret' = 0
                   /\ lastOut' = <<>>
                   /\ UNCHANGED <<registry, stdout, caller, pending, prog>>

\* glk_fileref_does_file_exist(fref): fopen(fref->filename, "r")
glk_fileref_does_file_exist(fref) ==
    /\ pc = "running"
    /\ call' = "glk_fileref_does_file_exist"
    /\ IF fref = NULL
       THEN /\ ret' = 0
            /\ Silent
            /\ UNCHANGED <<pc, registry>>
       ELSE \E o \in Outcomes(fref \notin freflive) :
              IF o = "crash" THEN Crash
              ELSE /\ ret' = IF frefmem[fref].filename \in files THEN 1 ELSE 0
                   /\ Returned(fref \notin freflive)
                   /\ Silent
                   /\ UNCHANGED registry

\* fopen(fileref->filename, modestr): "r" and "r+" open a file that exists, "w"
\* and "a" create it; env is whether the file system allows the open.
Opens(fileref, fmode, env) ==
    /\ env
    /\ \/ fmode \in {filemode_Write, filemode_WriteAppend}
       \/ frefmem[fileref].filename \in files

\* glk_stream_open_file() with the stream made before the mode is looked at and
\* the file opened.
open_file_stream_first(p, env, fileref, fmode, rock) ==
    /\ pc = "running"
    /\ call' = "glk_stream_open_file"
    /\ gli_stream_id_counter <= MaxCreate
    /\ fileref # NULL
    /\ fileref \in freflive
    /\ LET opened == fmode \in FileModes /\ Opens(fileref, fmode, env)
           S1 == gli_stream_new(Streams, p, 2, 0, 0, rock)
       IN /\ SetStreams(IF p # NULL /\ opened THEN [S1 EXCEPT !.mem[p].file = 1] ELSE S1)
          /\ ret' = IF opened THEN p ELSE NULL
          /\ files' = files
    /\ lastOut' = <<>>
    /\ UNCHANGED <<pc, windows, filerefs, stdout, caller, pending, prog>>

\* glk_stream_open_file(fileref, fmode, rock): env is whether the file system
\* allows the open, p what malloc() returns in gli_stream_new().
glk_stream_open_file(p, env, fileref, fmode, rock) ==
    /\ pc = "running"
    /\ call' = "glk_stream_open_file"
    /\ gli_stream_id_counter <= MaxCreate
    /\ IF fileref = NULL \/ fmode \notin FileModes
       THEN /\ ret' = NULL
            /\ Silent
            /\ UNCHANGED <<pc, registry>>
       ELSE \E o \in Outcomes(fileref \notin freflive) :
              IF o = "crash" THEN Crash
              ELSE LET readable == IF fmode \in {filemode_Read, filemode_ReadWrite} THEN 1 ELSE 0
                       writable == IF fmode = filemode_Read THEN 0 ELSE 1
                       opened == Opens(fileref, fmode, env)
                       S1 == gli_stream_new(Streams, p, 2, readable, writable, rock)
                   IN /\ IF opened
                         THEN /\ SetStreams(IF p = NULL THEN S1
                                            ELSE [S1 EXCEPT !.mem[p].file = 1])
                              /\ ret' = p
                              /\ files' = IF fmode \in {filemode_Write, filemode_WriteAppend}
                                          THEN files \cup {frefmem[fileref].filename}
                                          ELSE files
                         ELSE /\ ret' = NULL
                              /\ UNCHANGED <<streams, files>>
                      /\ Returned(fileref \notin freflive)
                      /\ lastOut' = <<>>
                      /\ UNCHANGED <<windows, filerefs, stdout, caller, pending, prog>>

----------------------------------------------------------------------------
\* Capability queries.  A selector is named by its glk.h name.
keycode_MAXVAL == 28
gestalt_Version_Value == 1798            \* 0x00000706
gestalt_CharOutput_CannotPrint == 0
gestalt_CharOutput_ExactPrint == 2

Selectors ==
    {"gestalt_Version", "gestalt_CharInput", "gestalt_LineInput", "gestalt_CharOutput",
     "gestalt_MouseInput", "gestalt_Timer", "gestalt_Graphics", "gestalt_DrawImage",
     "gestalt_Sound", "gestalt_SoundVolume", "gestalt_SoundNotify", "gestalt_Hyperlinks",
     "gestalt_HyperlinkInput", "gestalt_SoundMusic", "gestalt_GraphicsTransparency",
     "gestalt_Unicode", "gestalt_UnicodeNorm", "gestalt_LineInputEcho",
     "gestalt_LineTerminators", "gestalt_LineTerminatorKey", "gestalt_DateTime",
     "gestalt_Sound2", "gestalt_ResourceStream", "gestalt_GraphicsCharInput",
     "gestalt_DrawImageScale", "gestalt_Unknown"}

\* val <= 0x7F || (val >= 0xA0 && val <= 0xFF), on glui32
Latin1Printable(val) == ~UGt(val, 127) \/ (~ULt(val, 160) /\ ~UGt(val, 255))

\* glk_gestalt_ext() answering from the state of the registry.
gestalt_by_state(sel, val) ==
    IF sel = "gestalt_Version" THEN gestalt_Version_Value
    ELSE IF sel = "gestalt_Sound" THEN Cardinality(strlive)
    ELSE IF sel = "gestalt_Unicode" THEN 1 - Cardinality(winlive)
    ELSE 0

\* glk_gestalt_ext(sel, val, NULL, 0)
glk_gestalt_ext(sel, val) ==
    CASE sel = "gestalt_Version" -> gestalt_Version_Value
      [] sel = "gestalt_CharInput" ->
            IF Latin1Printable(val) THEN 1
            ELSE IF ~ULt(val, 0 - keycode_MAXVAL) THEN 1 ELSE 0
      [] sel = "gestalt_LineInput" -> IF Latin1Printable(val) THEN 1 ELSE 0
      [] sel = "gestalt_CharOutput" ->
            IF Latin1Printable(val) THEN gestalt_CharOutput_ExactPrint
            ELSE gestalt_CharOutput_CannotPrint
      [] sel \in {"gestalt_Unicode", "gestalt_UnicodeNorm"} -> 1
      [] sel = "gestalt_Timer" -> 0
      [] sel \in {"gestalt_Graphics", "gestalt_DrawImage", "gestalt_GraphicsTransparency",
                  "gestalt_GraphicsCharInput", "gestalt_DrawImageScale"} -> 0
      [] sel \in {"gestalt_Sound", "gestalt_SoundVolume", "gestalt_SoundNotify",
                  "gestalt_SoundMusic", "gestalt_Sound2"} -> 0
      [] sel \in {"gestalt_Hyperlinks", "gestalt_HyperlinkInput"} -> 1
      [] sel = "gestalt_MouseInput" -> 0
      [] sel = "gestalt_DateTime" -> 1
      [] sel = "gestalt_LineInputEcho" -> 1
      [] sel = "gestalt_LineTerminators" -> 1
      [] sel = "gestalt_LineTerminatorKey" -> 0
      [] sel = "gestalt_ResourceStream" -> 1
      [] OTHER -> 0

GestaltVals == {65, 128, 0 - 6, 0 - 29}

\* glk_gestalt(sel, val)
glk_gestalt(sel, val) ==
    /\ pc = "running"
    /\ call' = "glk_gestalt"
    /\ ret' = glk_gestalt_ext(sel, val)
    /\ Silent
    /\ UNCHANGED <<pc, registry>>

----------------------------------------------------------------------------
----------------------------------------------------------------------------
\* Events.

keycode_Return == 0 - 6      \* 0xfffffffa

\* The bytes standard input may hold as one line (its newline not included), and
\* the end of input.
LongLine == [i \in 1..(InputBufSize + 1) |-> 120]
Hello == <<104, 101, 108, 108, 111>>
ShortLines == {<<>>, <<233>>, Hello}
EndOfInput == <<0 - 1>>

\* A byte read as a C char, and a char converted to unsigned char.
SChar(b) == IF b >= 128 THEN b - 256 ELSE b
UChar(c) == c % 256

\* strlen(s)
StrLen(s) ==
    LET nul == {i \in 1..Len(s) : s[i] = 0}
    IN IF nul = {} THEN Len(s) ELSE (CHOOSE i \in nul : \A j \in nul : i <= j) - 1

\* fgets(input, size, stdin) with the bytes data available (data # <<>>): the
\* bytes stored before the terminator, and the bytes left on standard input.
Fgets(size, data) ==
    LET nl == {i \in 1..Len(data) : data[i] = 10}
        line == IF nl = {} THEN Len(data) ELSE CHOOSE i \in nl : \A j \in nl : i <= j
        take == IF line > size - 1 THEN size - 1 ELSE line
    IN [got |-> SubSeq(data, 1, take), rest |-> SubSeq(data, take + 1, Len(data))]

\* The array old after bytes are stored from its start; bytes stored past its
\* end land behind it.
Stored(old, bytes) == bytes \o SubSeq(old, Len(bytes) + 1, Len(old))

\* The first n bytes of the caller's array b.
Array(mem, b, n) == [i \in 1..n |-> IF i <= Len(mem[b]) THEN mem[b][i] ELSE 0]

HasRequest(w) ==
    \/ winmem[w].char_request # 0
    \/ winmem[w].line_request # 0
    \/ winmem[w].char_request_uni # 0
    \/ winmem[w].line_request_uni # 0

\* The search of glk_select() keeping the last window with a request, not the first.
RECURSIVE Requester_oldest(_, _)
Requester_oldest(w, fuel) ==
    IF w = NULL \/ fuel = 0 THEN NULL
    ELSE LET older == Requester_oldest(winmem[w].next, fuel - 1)
         IN IF older # NULL THEN older
            ELSE IF HasRequest(w) THEN w ELSE NULL

\* for (win = gli_windowlist; win; win = win->next) if (a request) break;
RECURSIVE Requester(_, _)
Requester(w, fuel) ==
    IF w = NULL \/ fuel = 0 THEN NULL
    ELSE IF HasRequest(w) THEN w
    ELSE Requester(winmem[w].next, fuel - 1)

\* glk_select(event) with a pending request on win, fgets() having stored got.
Delivered(win, got) ==
    LET len0 == StrLen(got)
        len == IF len0 > 0 /\ got[len0] = 10 THEN len0 - 1 ELSE len0
        w == winmem[win]
        copylen == IF UGt(len, w.line_buflen - 1) THEN w.line_buflen - 1 ELSE len
    IN IF w.line_request # 0
       THEN [win |-> [w EXCEPT !.line_request = 0, !.line_buffer = NULL],
             buf |-> w.line_buffer,
             bytes |-> IF w.line_buffer # NULL THEN SubSeq(got, 1, copylen) \o <<0>> ELSE <<>>,
             event |-> IF w.line_buffer # NULL
                       THEN [type |-> "evtype_LineInput", win |-> win, val1 |-> copylen,
                             val2 |-> 0]
                       ELSE NoEvent]
       ELSE IF w.char_request # 0
       THEN [win |-> [w EXCEPT !.char_request = 0],
             buf |-> NULL,
             bytes |-> <<>>,
             event |-> [type |-> "evtype_CharInput", win |-> win,
                        val1 |-> IF len > 0 THEN UChar(SChar(got[1])) ELSE keycode_Return,
                        val2 |-> 0]]
       ELSE [win |-> w, buf |-> NULL, bytes |-> <<>>, event |-> NoEvent]

\* The input frame glk_select() writes for win.
InputFrame(win) ==
    Frame("input", winmem[win].id,
          IF winmem[win].line_request # 0 \/ winmem[win].line_request_uni # 0
          THEN "line" ELSE "char", 0)

\* glk_select(event), event # NULL; in is what standard input holds next when
\* the call reads a new line.
glk_select(in) ==
    /\ pc = "running"
    /\ call' = "glk_select"
    /\ ret' = 0
    /\ UNCHANGED <<streams, filerefs, rbuf, result, prog, files>>
    /\ LET win == Requester(gli_windowlist, MaxWin + 1)
           data == IF pending # <<>> THEN pending
                   ELSE IF in = EndOfInput THEN <<>> ELSE in \o <<10>>
       IN IF win = NULL
          THEN /\ event' = NoEvent
               /\ lastOut' = <<>>
               /\ UNCHANGED <<pc, windows, bufmem, pending, stdout>>
          ELSE IF data = <<>>
          THEN /\ event' = NoEvent
               /\ json_flush(<<InputFrame(win), Frame("exit", 0, "", 0)>>)
               /\ pc' = "exited"
               /\ UNCHANGED <<windows, bufmem, pending>>
          ELSE LET f == Fgets(InputBufSize, data)
                   d == Delivered(win, f.got)
                   over == d.buf # NULL /\ Len(d.bytes) > Cap(d.buf)
               IN \E o \in Outcomes(over) :
                    /\ json_flush(<<InputFrame(win)>>)
                    /\ pending' = f.rest
                    /\ UNCHANGED <<winlive, gli_rootwin, gli_windowlist,
                                   gli_window_id_counter>>
                    /\ IF o = "crash"
                       THEN /\ pc' = "aborted"
                            /\ UNCHANGED <<winmem, bufmem, event>>
                       ELSE /\ Returned(over)
                            /\ winmem' = [winmem EXCEPT ![win] = d.win]
                            /\ event' = d.event
                            /\ bufmem' = IF d.buf # NULL
                                         THEN [bufmem EXCEPT ![d.buf] = Stored(@, d.bytes)]
                                         ELSE bufmem

\* glk_select_poll() taking the character requests for served.
select_poll_serving ==
    /\ pc = "running"
    /\ call' = "glk_select_poll"
    /\ event' = NoEvent
    /\ ret' = 0
    /\ lastOut' = <<>>
    /\ winmem' = [w \in WinSlots |-> [winmem[w] EXCEPT !.char_request = 0]]
    /\ UNCHANGED <<pc, winlive, gli_rootwin, gli_windowlist, gli_window_id_counter,
                   streams, filerefs, bufmem, rbuf, result, pending, stdout, prog, files>>

\* glk_select_poll(event), event # NULL
glk_select_poll ==
    /\ pc = "running"
    /\ call' = "glk_select_poll"
    /\ event' = NoEvent
    /\ ret' = 0
    /\ lastOut' = <<>>
    /\ UNCHANGED <<pc, registry, bufmem, rbuf, result, pending, stdout, prog, files>>

\* A call that changes nothing but block win of the windows.
WindowSet(win, rec) ==
    /\ \E o \in Outcomes(win \notin winlive) :
         IF o = "crash" THEN Crash
         ELSE /\ winmem' = [winmem EXCEPT ![win] = rec]
              /\ Returned(win \notin winlive)
              /\ ret' = 0
              /\ Silent
              /\ UNCHANGED <<winlive, gli_rootwin, gli_windowlist, gli_window_id_counter,
                             streams, filerefs>>

\* A call with a NULL handle that returns at once.
Nothing ==
    /\ ret' = 0
    /\ Silent
    /\ UNCHANGED <<pc, registry>>

\* glk_request_line_event(win, buf, maxlen, initlen)
glk_request_line_event(win, buf, maxlen) ==
    /\ pc = "running"
    /\ call' = "glk_request_line_event"
    /\ IF win = NULL THEN Nothing
       ELSE WindowSet(win, [winmem[win] EXCEPT !.line_request = 1, !.line_buffer = buf,
                                               !.line_buflen = maxlen])

\* glk_request_char_event() without its test of win.
request_char_unchecked(win) ==
    /\ pc = "running"
    /\ call' = "glk_request_char_event"
    /\ IF win = NULL THEN Crash
       ELSE WindowSet(win, [winmem[win] EXCEPT !.char_request = 1])

\* glk_request_char_event(win)
glk_request_char_event(win) ==
    /\ pc = "running"
    /\ call' = "glk_request_char_event"
    /\ IF win = NULL THEN Nothing
       ELSE WindowSet(win, [winmem[win] EXCEPT !.char_request = 1])

\* glk_request_char_event_uni(win)
glk_request_char_event_uni(win) ==
    /\ pc = "running"
    /\ call' = "glk_request_char_event_uni"
    /\ IF win = NULL THEN Nothing
       ELSE WindowSet(win, [winmem[win] EXCEPT !.char_request_uni = 1])

\* glk_request_line_event_uni(win, buf, maxlen, initlen)
glk_request_line_event_uni(win, buf, maxlen) ==
    /\ pc = "running"
    /\ call' = "glk_request_line_event_uni"
    /\ IF win = NULL THEN Nothing
       ELSE WindowSet(win, [winmem[win] EXCEPT !.line_request_uni = 1,
                                               !.line_buffer_uni = buf,
                                               !.line_buflen = maxlen])

\* glk_cancel_line_event(win, NULL)
glk_cancel_line_event(win) ==
    /\ pc = "running"
    /\ call' = "glk_cancel_line_event"
    /\ IF win = NULL THEN Nothing
       ELSE WindowSet(win, [winmem[win] EXCEPT !.line_request = 0, !.line_buffer = NULL])

\* glk_cancel_char_event(win)
glk_cancel_char_event(win) ==
    /\ pc = "running"
    /\ call' = "glk_cancel_char_event"
    /\ IF win = NULL THEN Nothing
       ELSE WindowSet(win, [winmem[win] EXCEPT !.char_request = 0])

\* A call that reads through a handle and returns value, or returns neutral at
\* once when the handle is NULL.
Getter(handle, live, value, neutral) ==
    /\ pc = "running"
    /\ IF handle = NULL
       THEN /\ ret' = neutral
            /\ Silent
            /\ UNCHANGED <<pc, registry>>
       ELSE \E o \in Outcomes(handle \notin live) :
              IF o = "crash" THEN Crash
              ELSE /\ ret' = value
                   /\ Returned(handle \notin live)
                   /\ Silent
                   /\ UNCHANGED registry

\* glk_window_iterate(win, NULL)
glk_window_iterate(win) ==
    /\ call' = "glk_window_iterate"
    /\ Getter(win, winlive, winmem[win].next, gli_windowlist)

\* glk_window_get_rock(win)
glk_window_get_rock(win) ==
    /\ call' = "glk_window_get_rock"
    /\ Getter(win, winlive, winmem[win].rock, 0)

\* glk_window_get_type(win)
glk_window_get_type(win) ==
    /\ call' = "glk_window_get_type"
    /\ Getter(win, winlive, winmem[win].type, 0)

\* glk_window_get_stream(win)
glk_window_get_stream(win) ==
    /\ call' = "glk_window_get_stream"
    /\ Getter(win, winlive, winmem[win].str, NULL)

\* glk_window_get_echo_stream(win)
glk_window_get_echo_stream(win) ==
    /\ call' = "glk_window_get_echo_stream"
    /\ Getter(win, winlive, winmem[win].echostr, NULL)

\* glk_stream_iterate(str, NULL)
glk_stream_iterate(str) ==
    /\ call' = "glk_stream_iterate"
    /\ Getter(str, strlive, strmem[str].next, gli_streamlist)

\* glk_stream_get_rock(str)
glk_stream_get_rock(str) ==
    /\ call' = "glk_stream_get_rock"
    /\ Getter(str, strlive, strmem[str].rock, 0)

\* glk_stream_get_position(str), str not a file stream
glk_stream_get_position(str) ==
    /\ call' = "glk_stream_get_position"
    /\ Getter(str, strlive, IF strmem[str].type = 1 THEN strmem[str].bufptr ELSE 0, 0)

\* glk_fileref_iterate(fref, NULL)
glk_fileref_iterate(fref) ==
    /\ call' = "glk_fileref_iterate"
    /\ Getter(fref, freflive, frefmem[fref].next, gli_filereflist)

\* glk_fileref_get_rock(fref)
glk_fileref_get_rock(fref) ==
    /\ call' = "glk_fileref_get_rock"
    /\ Getter(fref, freflive, frefmem[fref].rock, 0)

----------------------------------------------------------------------------
\* Stream data.

seekmode_Start == 0
seekmode_Current == 1
seekmode_End == 2
SeekModes == {seekmode_Start, seekmode_Current, seekmode_End}

\* glk_stream_open_memory_uni(buf, buflen, fmode, rock), malloc() having returned
\* p.  buf names a glui32 array; no function reads or writes such an array.
glk_stream_open_memory_uni(p, buf, buflen, fmode, rock) ==
    /\ pc = "running"
    /\ call' = "glk_stream_open_memory_uni"
    /\ gli_stream_id_counter <= MaxCreate
    /\ LET readable == IF fmode \in {filemode_Read, filemode_ReadWrite} THEN 1 ELSE 0
           writable == IF fmode \in {filemode_Write, filemode_ReadWrite} THEN 1 ELSE 0
           S1 == gli_stream_new(Streams, p, 1, readable, writable, rock)
       IN SetStreams(IF p = NULL THEN S1
                     ELSE [S1 EXCEPT !.mem[p].buf_uni = buf, !.mem[p].buflen = buflen,
                                     !.mem[p].bufptr = 0, !.mem[p].is_unicode = 1])
    /\ ret' = p
    /\ Silent
    /\ UNCHANGED <<pc, windows, filerefs>>

\* What the output functions change: the stream blocks, the caller's arrays and
\* the frames of the call.
World == [mem |-> strmem, buf |-> bufmem, out |-> <<>>]

\* gli_put_char_to_stream() without the ++ of str->buf[str->bufptr++].
put_char_in_place(W, str, ch) ==
    IF str = NULL THEN W
    ELSE IF W.mem[str].writable = 0 THEN W
    ELSE LET s == W.mem[str]
             W1 == [W EXCEPT !.mem[str].writecount = @ + 1]
         IN IF s.type = 1 /\ s.buf # NULL /\ ULt(s.bufptr, s.buflen)
            THEN [W1 EXCEPT !.buf[s.buf][s.bufptr + 1] = ch]
            ELSE W1

\* gli_put_char_to_stream() without str->writecount++.
put_char_uncounted(W, str, ch) ==
    IF str = NULL THEN W
    ELSE IF W.mem[str].writable = 0 THEN W
    ELSE LET s == W.mem[str]
         IN IF s.type = 0 /\ s.win # NULL
            THEN [W EXCEPT !.out = Append(@, Frame("update", winmem[s.win].id, "text", ch))]
            ELSE IF s.type = 1 /\ s.buf # NULL /\ ULt(s.bufptr, s.buflen)
            THEN [W EXCEPT !.buf[s.buf][s.bufptr + 1] = ch, !.mem[str].bufptr = @ + 1]
            ELSE W

\* gli_put_char_to_stream(str, ch)
gli_put_char_to_stream(W, str, ch) ==
    IF str = NULL THEN W
    ELSE IF W.mem[str].writable = 0 THEN W
    ELSE LET s == W.mem[str]
             W1 == [W EXCEPT !.mem[str].writecount = @ + 1]
         IN IF s.type = 0 /\ s.win # NULL
            THEN [W1 EXCEPT !.out = Append(@, Frame("update", winmem[s.win].id, "text", ch))]
            ELSE IF s.type = 1 /\ s.buf # NULL
            THEN IF ULt(s.bufptr, s.buflen)
                 THEN [W1 EXCEPT !.buf[s.buf][s.bufptr + 1] = ch,
                                 !.mem[str].bufptr = @ + 1]
                 ELSE W1
            ELSE W1

\* for (i = 0; i < len; i++) gli_put_char_to_stream(str, buf[i]);
RECURSIVE PutBuffer(_, _, _)
PutBuffer(W, str, data) ==
    IF data = <<>> THEN W
    ELSE PutBuffer(gli_put_char_to_stream(W, str, UChar(SChar(Head(data)))), str, Tail(data))

\* A call that has written W through the handle str.
Put(W, str) ==
    \E o \in Outcomes(str # NULL /\ str \notin strlive) :
      IF o = "crash" THEN Crash
      ELSE /\ strmem' = W.mem
           /\ bufmem' = W.buf
           /\ json_flush(W.out)
           /\ Returned(str # NULL /\ str \notin strlive)
           /\ ret' = 0
           /\ UNCHANGED <<windows, filerefs, strlive, gli_streamlist, gli_currentstr,
                          gli_stream_id_counter, event, rbuf, result, pending, prog, files>>

\* glk_put_char_stream(str, ch)
glk_put_char_stream(str, ch) ==
    /\ pc = "running"
    /\ call' = "glk_put_char_stream"
    /\ Put(gli_put_char_to_stream(World, str, ch), str)

\* glk_put_buffer_stream(str, buf, len), buf # NULL holding the len bytes data
glk_put_buffer_stream(str, data) ==
    /\ pc = "running"
    /\ call' = "glk_put_buffer_stream"
    /\ Put(PutBuffer(World, str, data), str)

\* glk_put_char(ch)
glk_put_char(ch) ==
    /\ pc = "running"
    /\ call' = "glk_put_char"
    /\ Put(gli_put_char_to_stream(World, gli_currentstr, ch), gli_currentstr)

\* glk_put_string(s), s # NULL holding the bytes data and a terminator
glk_put_string(data) ==
    /\ pc = "running"
    /\ call' = "glk_put_string"
    /\ Put(PutBuffer(World, gli_currentstr, SubSeq(data, 1, StrLen(data))), gli_currentstr)

\* glk_put_buffer(buf, len), buf # NULL holding the len bytes data
glk_put_buffer(data) ==
    /\ pc = "running"
    /\ call' = "glk_put_buffer"
    /\ Put(PutBuffer(World, gli_currentstr, data), gli_currentstr)

\* a | b and a >> n on values from 0 up
RECURSIVE BitOr(_, _)
BitOr(a, b) ==
    IF a = 0 THEN b
    ELSE IF b = 0 THEN a
    ELSE 2 * BitOr(a \div 2, b \div 2) + (IF a % 2 = 1 \/ b % 2 = 1 THEN 1 ELSE 0)

Shr(a, n) == a \div (2 ^ n)

\* glk_put_char_uni()'s encoding without its last branch: three bytes from 0x800 up.
Utf8_three_bytes(ch) ==
    IF ch < 2048
    THEN <<BitOr(192, Shr(ch, 6)) % 256, BitOr(128, ch % 64)>>
    ELSE <<BitOr(224, Shr(ch, 12)) % 256, BitOr(128, Shr(ch, 6) % 64), BitOr(128, ch % 64)>>

\* What glk_put_char_uni() stores in char buf[4] for ch >= 0x80, each byte as
\* the conversion to char keeps it.
Utf8(ch) ==
    IF ch < 2048
    THEN <<BitOr(192, Shr(ch, 6)) % 256, BitOr(128, ch % 64)>>
    ELSE IF ch < 65536
    THEN <<BitOr(224, Shr(ch, 12)) % 256, BitOr(128, Shr(ch, 6) % 64), BitOr(128, ch % 64)>>
    ELSE <<BitOr(240, Shr(ch, 18)) % 256, BitOr(128, Shr(ch, 12) % 64),
           BitOr(128, Shr(ch, 6) % 64), BitOr(128, ch % 64)>>

\* glk_put_char_uni(ch), ch below 2^31
glk_put_char_uni(ch) ==
    /\ pc = "running"
    /\ call' = "glk_put_char_uni"
    /\ IF ch < 128
       THEN Put(gli_put_char_to_stream(World, gli_currentstr, UChar(ch)), gli_currentstr)
       ELSE Put(PutBuffer(World, gli_currentstr, Utf8(ch)), gli_currentstr)

\* glk_put_char_uni(ch) with gli_currentstr = str
PutCharUni(W, str, ch) ==
    IF ch < 128 THEN gli_put_char_to_stream(W, str, UChar(ch))
    ELSE PutBuffer(W, str, Utf8(ch))

\* for (i = 0; i < len; i++) glk_put_char_uni(buf[i]);
RECURSIVE PutBufferUni(_, _, _)
PutBufferUni(W, str, data) ==
    IF data = <<>> THEN W
    ELSE PutBufferUni(PutCharUni(W, str, Head(data)), str, Tail(data))

\* glk_put_char_stream_uni(str, ch): gli_currentstr is str during the call and
\* what it was before after it.
glk_put_char_stream_uni(str, ch) ==
    /\ pc = "running"
    /\ call' = "glk_put_char_stream_uni"
    /\ Put(PutCharUni(World, str, ch), str)

\* glk_put_string_stream_uni(str, s), s # NULL holding the code points data and
\* a terminator
glk_put_string_stream_uni(str, data) ==
    /\ pc = "running"
    /\ call' = "glk_put_string_stream_uni"
    /\ Put(PutBufferUni(World, str, SubSeq(data, 1, StrLen(data))), str)

\* glk_put_buffer_stream_uni(str, buf, len), buf holding the len code points data
glk_put_buffer_stream_uni(str, data) ==
    /\ pc = "running"
    /\ call' = "glk_put_buffer_stream_uni"
    /\ Put(PutBufferUni(World, str, data), str)

\* glk_window_clear(win)
glk_window_clear(win) ==
    /\ pc = "running"
    /\ call' = "glk_window_clear"
    /\ IF win = NULL THEN Nothing
       ELSE \E o \in Outcomes(win \notin winlive) :
              IF o = "crash" THEN Crash
              ELSE /\ json_flush(<<Frame("update", winmem[win].id, "clear", 0)>>)
                   /\ Returned(win \notin winlive)
                   /\ ret' = 0
                   /\ UNCHANGED <<registry, caller, pending, prog, files>>

\* A call that leaves block str as rec, returns r and has stored bytes in the
\* array the caller gave it to read into.
Got(str, rec, r, bytes) ==
    \E o \in Outcomes(str \notin strlive) :
      IF o = "crash" THEN Crash
      ELSE /\ strmem' = [strmem EXCEPT ![str] = rec]
           /\ rbuf' = Stored(rbuf, bytes)
           /\ UNCHANGED result
           /\ Returned(str \notin strlive)
           /\ ret' = r
           /\ lastOut' = <<>>
           /\ UNCHANGED <<windows, filerefs, strlive, gli_streamlist, gli_currentstr,
                          gli_stream_id_counter, bufmem, event, pending, stdout, prog, files>>

\* glk_stream_set_position(str, pos, seekmode)
glk_stream_set_position(str, pos, seekmode) ==
    /\ pc = "running"
    /\ call' = "glk_stream_set_position"
    /\ IF str = NULL THEN Nothing
       ELSE LET s == strmem[str]
                target == IF seekmode = seekmode_Current THEN s.bufptr + pos
                          ELSE IF seekmode = seekmode_End THEN s.buflen + pos
                          ELSE pos
            IN Got(str,
                   IF s.type = 1
                   THEN [s EXCEPT !.bufptr = IF UGt(target, s.buflen) THEN s.buflen
                                             ELSE target]
                   ELSE s,
                   0, <<>>)

\* glk_get_char_stream() without its test of bufptr against buflen.
get_char_past_end(str) ==
    /\ pc = "running"
    /\ call' = "glk_get_char_stream"
    /\ str # NULL
    /\ LET s == strmem[str]
           s1 == [s EXCEPT !.readcount = @ + 1]
       IN IF s.readable = 0 THEN Got(str, s, 0 - 1, <<>>)
          ELSE IF s.type = 1 /\ s.buf # NULL
          THEN Got(str, [s1 EXCEPT !.bufptr = @ + 1], 0, <<>>)
          ELSE Got(str, s1, 0 - 1, <<>>)

\* glk_get_char_stream(str)
glk_get_char_stream(str) ==
    /\ pc = "running"
    /\ call' = "glk_get_char_stream"
    /\ IF str = NULL
       THEN /\ ret' = 0 - 1
            /\ Silent
            /\ UNCHANGED <<pc, registry>>
       ELSE LET s == strmem[str]
                s1 == [s EXCEPT !.readcount = @ + 1]
            IN IF s.readable = 0 THEN Got(str, s, 0 - 1, <<>>)
               ELSE IF s.type = 1 /\ s.buf # NULL /\ ULt(s.bufptr, s.buflen)
               THEN Got(str, [s1 EXCEPT !.bufptr = @ + 1],
                        UChar(SChar(bufmem[s.buf][s.bufptr + 1])), <<>>)
               ELSE Got(str, s1, 0 - 1, <<>>)

\* glk_get_char_stream_uni(str): return glk_get_char_stream(str);
glk_get_char_stream_uni(str) == glk_get_char_stream(str)

\* glk_get_buffer_stream(str, buf, len), buf # NULL
glk_get_buffer_stream(str, len) ==
    /\ pc = "running"
    /\ call' = "glk_get_buffer_stream"
    /\ IF str = NULL THEN Nothing
       ELSE LET s == strmem[str]
                left == IF ULt(s.bufptr, s.buflen) THEN s.buflen - s.bufptr ELSE 0
                count == IF s.type = 1 /\ s.buf # NULL
                         THEN (IF ULt(left, len) THEN left ELSE len)
                         ELSE 0
            IN IF s.readable = 0 THEN Got(str, s, 0, <<>>)
               ELSE Got(str, [s EXCEPT !.bufptr = @ + count, !.readcount = @ + count],
                        count,
                        IF count = 0 THEN <<>>
                        ELSE SubSeq(bufmem[s.buf], s.bufptr + 1, s.bufptr + count))

\* The bytes the loop of glk_get_line_stream() copies from data when it may
\* copy max of them: up to and with the first newline.
LineOf(data, max) ==
    LET most == IF Len(data) < max THEN Len(data) ELSE max
        nl == {i \in 1..most : SChar(data[i]) = 10}
    IN SubSeq(data, 1, IF nl = {} THEN most ELSE CHOOSE i \in nl : \A j \in nl : i <= j)

\* glk_get_line_stream(str, buf, len), buf # NULL, the stream not a file's
glk_get_line_stream(str, len) ==
    /\ pc = "running"
    /\ call' = "glk_get_line_stream"
    /\ IF str = NULL \/ len = 0 THEN Nothing
       ELSE LET s == strmem[str]
                left == IF s.type = 1 /\ s.buf # NULL /\ ULt(s.bufptr, s.buflen)
                        THEN SubSeq(bufmem[s.buf], s.bufptr + 1, s.buflen)
                        ELSE <<>>
                line == LineOf(left, len - 1)
            IN IF s.readable = 0 THEN Got(str, s, 0, <<>>)
               ELSE Got(str, [s EXCEPT !.bufptr = @ + Len(line), !.readcount = @ + Len(line)],
                        Len(line), line \o <<0>>)

----------------------------------------------------------------------------
\* The engine's calls on the registry; every handle it passes is live.
WindowCalls ==
    \/ \E p \in Malloc(winmem, winlive), q \in Malloc(strmem, strlive),
          t \in WinTypes, r \in Rocks : glk_window_open(p, q, t, r)
    \/ \E w \in winlive : glk_window_close(w)

StreamCalls ==
    \/ \E p \in Malloc(strmem, strlive), r \in Rocks :
          glk_stream_open_memory(p, MaxCap + 1, MaxCap, filemode_ReadWrite, r)
    \/ \E s \in strlive : glk_stream_close(s)

CurrentCalls ==
    \/ \E s \in strlive \cup {NULL} : glk_stream_set_current(s)
    \/ \E w \in winlive \cup {NULL} : glk_set_window(w)

FilerefCalls ==
    \/ \E p \in Malloc(frefmem, freflive), d \in BOOLEAN, u \in Usages, n \in FileNames,
          r \in Rocks : glk_fileref_create_by_name(p, d, u, n, r)
    \/ \E f \in freflive : glk_fileref_destroy(f)

GestaltCalls ==
    \E sel \in Selectors :
      \E v \in (IF sel \in {"gestalt_CharInput", "gestalt_LineInput", "gestalt_CharOutput"}
                THEN GestaltVals ELSE {0}) : glk_gestalt(sel, v)

\* Input requests on the open windows, standard input holding lines of lines
\* and the engine giving the arrays bufs to line requests, each with its true
\* size.
EventCalls(lines, bufs) ==
    \/ \E in \in lines \cup {EndOfInput} : glk_select(in)
    \/ glk_select_poll
    \/ \E w \in winlive, b \in bufs : glk_request_line_event(w, b, Cap(b))
    \/ \E w \in winlive : glk_request_char_event(w)
    \/ \E w \in winlive : glk_cancel_line_event(w)
    \/ \E w \in winlive : glk_cancel_char_event(w)

\* Windows, streams and the current stream.
Next ==
    \/ main
    \/ glk_exit
    \/ WindowCalls
    \/ StreamCalls
    \/ CurrentCalls

Spec == Init /\ [][Next]_vars

\* The three kinds of object, created and destroyed.
NextObjects ==
    \/ main
    \/ glk_exit
    \/ WindowCalls
    \/ StreamCalls
    \/ FilerefCalls

SpecObjects == Init /\ [][NextObjects]_vars

\* The windows opened while input is requested.
RequestWindows ==
    \/ /\ gli_window_id_counter <= MaxReq
       /\ \E p \in Malloc(winmem, winlive), q \in Malloc(strmem, strlive),
             t \in WinTypes, r \in Rocks : glk_window_open(p, q, t, r)
    \/ \E w \in winlive : glk_window_close(w)

\* Input requests served from short lines.
NextEvent ==
    \/ main
    \/ glk_exit
    \/ RequestWindows
    \/ EventCalls(ShortLines, {MaxCap + 1})

SpecEvent == Init /\ [][NextEvent]_vars

\* The capability queries among calls on windows, file references and events.
NextGestalt ==
    \/ main
    \/ glk_exit
    \/ RequestWindows
    \/ \E w \in winlive : glk_request_char_event(w)
    \/ \E in \in {<<>>, Hello, EndOfInput} : glk_select(in)
    \/ /\ gli_fileref_id_counter <= MaxReq
       /\ \E p \in Malloc(frefmem, freflive), d \in BOOLEAN, u \in Usages, n \in FileNames,
             r \in Rocks : glk_fileref_create_by_name(p, d, u, n, r)
    \/ \E f \in freflive : glk_fileref_destroy(f)
    \/ GestaltCalls

SpecGestalt == Init /\ [][NextGestalt]_vars

\* Line requests of every size served from short and long lines.
NextLine ==
    \/ main
    \/ glk_exit
    \/ RequestWindows
    \/ \E in \in {Hello, LongLine, EndOfInput} : glk_select(in)
    \/ \E w \in winlive, b \in {1, BigBuf} : glk_request_line_event(w, b, Cap(b))

SpecLine == Init /\ [][NextLine]_vars

\* Data written to and read from byte and code-point memory streams.
DataBuf == MaxCount
DataBufs == {NULL, DataBuf}
UniBuf == 1
Bytes == {65, 233}
Datas == {[i \in 1..MaxCount |-> IF i = 2 THEN 200 ELSE 65 + i]}

StreamDataCalls ==
    \/ /\ gli_stream_id_counter <= MaxOpen
       /\ \E p \in Malloc(strmem, strlive), b \in DataBufs, m \in FileModes, r \in Rocks :
             glk_stream_open_memory(p, b, IF b = NULL THEN 0 ELSE Cap(b), m, r)
    \/ /\ gli_stream_id_counter <= MaxOpen
       /\ \E p \in Malloc(strmem, strlive), m \in {filemode_Write, filemode_ReadWrite},
             r \in Rocks : glk_stream_open_memory_uni(p, UniBuf, MaxUni, m, r)
    \/ \E s \in strlive : glk_stream_close(s)
    \/ \E s \in strlive, ch \in Bytes :
          strmem[s].writecount < MaxCount /\ glk_put_char_stream(s, ch)
    \/ \E s \in strlive, d \in Datas :
          strmem[s].writecount + Len(d) <= MaxCount /\ glk_put_buffer_stream(s, d)
    \/ \E s \in strlive, pos \in {0 - 1, 0, 1}, m \in SeekModes :
          glk_stream_set_position(s, pos, m)
    \/ \E s \in strlive : strmem[s].readcount < MaxCount /\ glk_get_char_stream(s)
    \/ \E s \in strlive : strmem[s].readcount + 2 <= MaxCount /\ glk_get_buffer_stream(s, 2)

NextStream ==
    \/ main
    \/ glk_exit
    \/ StreamDataCalls

SpecStream == Init /\ [][NextStream]_vars

\* The program that writes data to a read-write memory stream on the array buf,
\* goes back to the start and reads the data with one glk_get_buffer_stream()
\* or, byte by byte, with glk_get_char_stream().
RoundTrips ==
    {[name |-> n, buf |-> b, data |-> d] :
        n \in {"buffer", "char"}, b \in 2..(MaxCap + 1),
        d \in UNION {[1..l -> {0, 65, 233}] : l \in 1..MaxLen}}

InitRoundTrip ==
    /\ InitState
    /\ prog \in {t \in RoundTrips : Len(t.data) <= Cap(t.buf)}
    /\ files = {}

\* Where the program is.
Written0(s) == strmem[s].writecount = 0
Rewound(s) == strmem[s].writecount > 0 /\ strmem[s].bufptr = strmem[s].readcount

NextRoundTrip ==
    \/ main
    \/ glk_exit
    \/ /\ gli_stream_id_counter = 1
       /\ \E p \in Malloc(strmem, strlive), r \in Rocks :
             glk_stream_open_memory(p, prog.buf, Cap(prog.buf), filemode_ReadWrite, r)
    \/ \E s \in strlive : Written0(s) /\ glk_put_buffer_stream(s, prog.data)
    \/ \E s \in strlive :
          /\ ~Written0(s) /\ ~Rewound(s) /\ strmem[s].readcount = 0
          /\ glk_stream_set_position(s, 0, seekmode_Start)
    \/ \E s \in strlive :
          /\ Rewound(s) /\ strmem[s].readcount = 0 /\ prog.name = "buffer"
          /\ glk_get_buffer_stream(s, Len(prog.data))
    \/ \E s \in strlive :
          /\ Rewound(s) /\ strmem[s].readcount < Len(prog.data) /\ prog.name = "char"
          /\ glk_get_char_stream(s)

SpecRoundTrip == InitRoundTrip /\ [][NextRoundTrip]_vars

\* The engine also closes windows it has closed before.
StaleWindows == {w \in WinSlots \ winlive : winmem[w].id # 0}

NextReclose ==
    \/ main
    \/ glk_exit
    \/ WindowCalls
    \/ \E p \in Malloc(strmem, strlive), r \in Rocks :
          glk_stream_open_memory(p, MaxCap + 1, MaxCap, filemode_ReadWrite, r)
    \/ \E s \in strlive \cup {NULL} : glk_stream_set_current(s)
    \/ \E w \in StaleWindows : glk_window_close(w)

SpecReclose == Init /\ [][NextReclose]_vars

\* Byte and code-point requests made and cancelled on the open windows and
\* served from short lines.
NextRequest ==
    \/ main
    \/ glk_exit
    \/ RequestWindows
    \/ \E in \in {<<>>, Hello, EndOfInput} : glk_select(in)
    \/ \E w \in winlive : glk_request_line_event(w, MaxCap + 1, Cap(MaxCap + 1))
    \/ \E w \in winlive : glk_request_line_event_uni(w, UniBuf, MaxUni)
    \/ \E w \in winlive : glk_request_char_event(w)
    \/ \E w \in winlive : glk_request_char_event_uni(w)
    \/ \E w \in winlive : glk_cancel_line_event(w)
    \/ \E w \in winlive : glk_cancel_char_event(w)

SpecRequest == Init /\ [][NextRequest]_vars

\* Requests pending on several windows at once: every window opened stays open
\* and lends an array of its own, window block w the array w + 2.
NextServe ==
    \/ main
    \/ glk_exit
    \/ /\ gli_window_id_counter <= MaxWin
       /\ \E p \in Malloc(winmem, winlive) \ {NULL}, q \in Malloc(strmem, strlive) \ {NULL},
             t \in WinTypes : glk_window_open(p, q, t, 5)
    \/ \E in \in {<<72, 105>>, EndOfInput} : glk_select(in)
    \/ \E w \in winlive : glk_request_line_event(w, w + 2, Cap(w + 2))
    \/ \E w \in winlive : glk_request_char_event(w)
    \/ \E w \in winlive : glk_request_char_event_uni(w)
    \/ \E w \in winlive : glk_cancel_char_event(w)

SpecServe == Init /\ [][NextServe]_vars

\* Echo streams: a window opened and closed, memory streams that are set as
\* its echo stream and closed, and the query of the echo stream.
NextEcho ==
    \/ main
    \/ glk_exit
    \/ /\ gli_window_id_counter <= MaxReq
       /\ \E p \in Malloc(winmem, winlive) \ {NULL}, q \in Malloc(strmem, strlive) \ {NULL},
             t \in WinTypes : glk_window_open(p, q, t, 5)
    \/ \E w \in winlive : glk_window_close(w)
    \/ \E p \in Malloc(strmem, strlive) \ {NULL}, m \in {filemode_Write, filemode_Read} :
          glk_stream_open_memory(p, MaxCap + 1, MaxCap, m, 5)
    \/ \E w \in winlive, t \in strlive \cup {NULL} : glk_window_set_echo_stream(w, t)
    \/ \E t \in {x \in strlive : strmem[x].type = 1} : glk_stream_close(t)
    \/ \E w \in winlive : glk_window_get_echo_stream(w)

SpecEcho == Init /\ [][NextEcho]_vars

\* Code-point memory streams written through a handle, with the code point 'A'
\* only, sought to their start and read, while another stream may be current.
NextUni ==
    \/ main
    \/ glk_exit
    \/ /\ gli_stream_id_counter <= MaxOpen
       /\ \E p \in Malloc(strmem, strlive) \ {NULL} :
             glk_stream_open_memory_uni(p, UniBuf, MaxUni, filemode_ReadWrite, 5)
    \/ /\ gli_stream_id_counter <= MaxOpen + 1
       /\ \E p \in Malloc(strmem, strlive) \ {NULL} :
             glk_stream_open_memory(p, MaxCap + 1, MaxCap, filemode_Write, 5)
    \/ \E t \in strlive \cup {NULL} : glk_stream_set_current(t)
    \/ \E t \in strlive :
         /\ strmem[t].writecount < MaxCount
         /\ \/ glk_put_char_stream_uni(t, 65)
            \/ glk_put_string_stream_uni(t, <<65, 0>>)
            \/ glk_put_buffer_stream_uni(t, <<65, 65>>)
    \/ \E t \in strlive : glk_stream_set_position(t, 0, seekmode_Start)
    \/ \E t \in strlive : strmem[t].readcount < MaxCount /\ glk_get_char_stream_uni(t)

SpecUni == Init /\ [][NextUni]_vars

\* Character requests served from short and long lines.
NextChar ==
    \/ main
    \/ glk_exit
    \/ RequestWindows
    \/ \E in \in ShortLines \cup {LongLine, EndOfInput} : glk_select(in)
    \/ \E w \in winlive : glk_request_char_event(w)
    \/ \E w \in winlive : glk_cancel_char_event(w)

SpecChar == Init /\ [][NextChar]_vars

\* File references made, destroyed and used on the files that exist when the
\* process starts.
Names == {1, 2}

InitFiles == InitState /\ prog = NoProgram /\ files \in SUBSET Names

NextFiles ==
    \/ main
    \/ glk_exit
    \/ \E p \in Malloc(frefmem, freflive), d \in BOOLEAN, u \in Usages, n \in Names,
          r \in Rocks : glk_fileref_create_by_name(p, d, u, n, r)
    \/ \E f \in freflive : glk_fileref_destroy(f)
    \/ \E f \in freflive : glk_fileref_delete_file(f)
    \/ \E f \in freflive : glk_fileref_does_file_exist(f)

SpecFiles == InitFiles /\ [][NextFiles]_vars

\* The calls that take a handle, called with NULL.
NullStateless ==
    \/ glk_window_close(NULL)
    \/ glk_window_clear(NULL)
    \/ glk_window_get_rock(NULL)
    \/ glk_window_get_type(NULL)
    \/ glk_window_get_stream(NULL)
    \/ glk_window_get_echo_stream(NULL)
    \/ glk_request_line_event(NULL, MaxCap + 1, MaxCap)
    \/ glk_request_char_event(NULL)
    \/ glk_request_line_event_uni(NULL, UniBuf, MaxUni)
    \/ glk_request_char_event_uni(NULL)
    \/ glk_cancel_line_event(NULL)
    \/ glk_cancel_char_event(NULL)
    \/ glk_stream_close(NULL)
    \/ glk_stream_get_rock(NULL)
    \/ glk_stream_get_position(NULL)
    \/ \E m \in SeekModes : glk_stream_set_position(NULL, 1, m)
    \/ \E ch \in Bytes : glk_put_char_stream(NULL, ch)
    \/ \E d \in Datas : glk_put_buffer_stream(NULL, d)
    \/ glk_get_char_stream(NULL)
    \/ glk_get_buffer_stream(NULL, 1)
    \/ glk_fileref_destroy(NULL)
    \/ glk_fileref_get_rock(NULL)
    \/ glk_fileref_delete_file(NULL)
    \/ glk_fileref_does_file_exist(NULL)

NullCurrent ==
    \/ glk_set_window(NULL)
    \/ glk_stream_set_current(NULL)

NullIterate ==
    \/ glk_window_iterate(NULL)
    \/ glk_stream_iterate(NULL)
    \/ glk_fileref_iterate(NULL)

\* Calls with NULL among windows with requests, streams, a current stream and
\* file references.
NextNull ==
    \/ main
    \/ glk_exit
    \/ /\ gli_window_id_counter <= MaxReq
       /\ \E p \in Malloc(winmem, winlive) \ {NULL}, q \in Malloc(strmem, strlive) \ {NULL},
             t \in WinTypes, r \in Rocks : glk_window_open(p, q, t, r)
    \/ /\ gli_stream_id_counter <= MaxOpen
       /\ \E p \in Malloc(strmem, strlive) \ {NULL}, r \in Rocks :
             glk_stream_open_memory(p, MaxCap + 1, MaxCap, filemode_ReadWrite, r)
    \/ /\ gli_fileref_id_counter <= MaxReq
       /\ \E p \in Malloc(frefmem, freflive) \ {NULL}, u \in Usages, n \in FileNames,
             r \in Rocks : glk_fileref_create_by_name(p, TRUE, u, n, r)
    \/ \E w \in winlive : glk_request_char_event(w)
    \/ \E w \in winlive : glk_set_window(w)
    \/ \E t \in strlive : glk_stream_set_current(t)
    \/ NullStateless
    \/ NullCurrent
    \/ NullIterate

SpecNull == Init /\ [][NextNull]_vars

\* Data written, read and sought on a window's stream and a memory stream, and
\* the streams closed, a window's by closing the window.
\* No stream has been closed yet.
NoneClosed == \A t \in StrSlots : strmem[t].id # 0 => t \in strlive

\* The bytes stream t has counted, written and read.
Counted(t) == strmem[t].writecount + strmem[t].readcount

NextCount ==
    \/ main
    \/ glk_exit
    \/ /\ gli_window_id_counter <= MaxReq
       /\ gli_windowlist = NULL
       /\ NoneClosed
       /\ \E p \in Malloc(winmem, winlive) \ {NULL}, q \in Malloc(strmem, strlive) \ {NULL},
             t \in WinTypes, r \in Rocks : glk_window_open(p, q, t, r)
    \/ \E w \in winlive : glk_window_close(w)
    \/ /\ gli_stream_id_counter <= MaxOpen + MaxReq
       /\ \A t \in strlive : strmem[t].type # 1
       /\ NoneClosed
       /\ \E p \in Malloc(strmem, strlive) \ {NULL},
             m \in {filemode_Read, filemode_ReadWrite}, r \in Rocks :
               glk_stream_open_memory(p, DataBuf, Cap(DataBuf), m, r)
    \/ \E t \in strlive : strmem[t].type = 1 /\ glk_stream_close(t)
    \/ \E t \in strlive : glk_stream_set_current(t)
    \/ \E t \in strlive : Counted(t) < MaxCount /\ glk_put_char_stream(t, 65)
    \/ \E t \in strlive, d \in Datas :
          Counted(t) = 0 /\ glk_put_buffer_stream(t, d)
    \/ \E t \in strlive, m \in SeekModes : glk_stream_set_position(t, 0 - 1, m)
    \/ \E t \in strlive : Counted(t) < MaxCount /\ glk_get_char_stream(t)
    \/ \E t \in strlive : Counted(t) < MaxCount /\ glk_get_buffer_stream(t, 2)

SpecCount == Init /\ [][NextCount]_vars

\* One memory stream of any mode, on an array or on none, written, sought and
\* read with the three read calls.
NextRead ==
    \/ main
    \/ glk_exit
    \/ /\ gli_stream_id_counter <= MaxOpen
       /\ strlive = {}
       /\ NoneClosed
       /\ \E p \in Malloc(strmem, strlive) \ {NULL}, b \in DataBufs, m \in FileModes,
             r \in Rocks : glk_stream_open_memory(p, b, IF b = NULL THEN 0 ELSE Cap(b), m, r)
    \/ \E t \in strlive : glk_stream_close(t)
    \/ \E t \in strlive, ch \in Bytes :
          strmem[t].writecount < MaxCount /\ glk_put_char_stream(t, ch)
    \/ \E t \in strlive, d \in Datas :
          strmem[t].writecount + Len(d) <= MaxCount /\ glk_put_buffer_stream(t, d)
    \/ \E t \in strlive, pos \in {0 - 1, 0, 1}, m \in SeekModes :
          glk_stream_set_position(t, pos, m)
    \/ \E t \in strlive : strmem[t].readcount < MaxCount /\ glk_get_char_stream(t)
    \/ \E t \in strlive : strmem[t].readcount < MaxCount /\ glk_get_buffer_stream(t, 2)
    \/ \E t \in strlive : strmem[t].readcount < MaxCount /\ glk_get_line_stream(t, 3)

SpecRead == Init /\ [][NextRead]_vars

\* An engine that opens files: file references by name, streams on them in
\* every mode and in two that glk.h does not define, and deletions of files.
OpenModes == FileModes \cup {0, 4}

NextOpenFile ==
    \/ main
    \/ glk_exit
    \/ /\ gli_fileref_id_counter <= MaxReq
       /\ \E p \in Malloc(frefmem, freflive) \ {NULL}, n \in Names :
            glk_fileref_create_by_name(p, TRUE, 257, n, 5)
    \/ \E p \in Malloc(strmem, strlive), env \in BOOLEAN, f \in freflive \cup {NULL},
          m \in OpenModes : glk_stream_open_file(p, env, f, m, 5)
    \/ \E f \in freflive : glk_fileref_delete_file(f)

SpecOpenFile == InitFiles /\ [][NextOpenFile]_vars

\* Code points written to a window and to a memory stream, one per call, through
\* the current stream and through a stream handle.
Utf8Points == {127, 128, 2047, 2048, 65535, 65536, 1114111}

NextUtf8 ==
    \/ main
    \/ glk_exit
    \/ /\ gli_window_id_counter <= MaxReq
       /\ gli_windowlist = NULL
       /\ NoneClosed
       /\ \E p \in Malloc(winmem, winlive) \ {NULL}, q \in Malloc(strmem, strlive) \ {NULL},
             t \in WinTypes : glk_window_open(p, q, t, 5)
    \/ /\ gli_stream_id_counter <= MaxOpen + MaxReq
       /\ NoneClosed
       /\ \A t \in strlive : strmem[t].type # 1
       /\ \E p \in Malloc(strmem, strlive) \ {NULL} :
             glk_stream_open_memory(p, MaxCap + 1, MaxCap, filemode_Write, 5)
    \/ \E t \in strlive : glk_stream_set_current(t)
    \/ /\ gli_currentstr # NULL => strmem[gli_currentstr].writecount < MaxCount
       /\ \E ch \in Utf8Points : glk_put_char_uni(ch)
    \/ \E t \in strlive :
         /\ strmem[t].writecount < MaxCount
         /\ \E ch \in Utf8Points : glk_put_char_stream_uni(t, ch)

SpecUtf8 == Init /\ [][NextUtf8]_vars

\* Text written to the current stream, a window's or a memory stream.
Strings == {<<>>, <<72, 105>>}
CodePoints == {65, 233, 8364, 128512}

NextOutput ==
    \/ main
    \/ glk_exit
    \/ RequestWindows
    \/ /\ gli_stream_id_counter <= MaxOpen + 1
       /\ \E p \in Malloc(strmem, strlive), r \in Rocks :
             glk_stream_open_memory(p, MaxCap + 1, MaxCap, filemode_Write, r)
    \/ \E w \in winlive : glk_set_window(w)
    \/ \E t \in strlive : glk_stream_set_current(t)
    \/ \E w \in winlive : glk_window_clear(w)
    \/ /\ gli_currentstr # NULL => strmem[gli_currentstr].writecount < MaxCount
       /\ \/ \E ch \in Bytes : glk_put_char(ch)
          \/ \E d \in Strings : glk_put_string(d)
          \/ \E d \in Datas : glk_put_buffer(d)
          \/ \E ch \in CodePoints : glk_put_char_uni(ch)

SpecOutput == Init /\ [][NextOutput]_vars

----------------------------------------------------------------------------
\* What glk_window_iterate(), glk_stream_iterate() and glk_fileref_iterate()
\* visit from the list head b: the blocks, in order.
RECURSIVE Walk(_, _, _)
Walk(mem, b, fuel) ==
    IF b = NULL \/ fuel = 0 THEN <<>>
    ELSE <<b>> \o Walk(mem, mem[b].next, fuel - 1)

Visited(mem, head) ==
    LET blocks == Walk(mem, head, Cardinality(DOMAIN mem) + 1)
    IN {blocks[i] : i \in 1..Len(blocks)}

Count(mem, head) == Len(Walk(mem, head, Cardinality(DOMAIN mem) + 1))

\* The window glk_select() serves.
Served == Requester(gli_windowlist, MaxWin + 1)

Min(a, b) == IF a < b THEN a ELSE b

----------------------------------------------------------------------------
\* C1: for each kind of object, after any creates and destroys on live handles,
\* the objects reachable from the list head are as many as were created and not
\* destroyed (they are the allocated ones), and a new object's identifier is
\* greater than every identifier given before: every identifier given is below
\* the kind's counter, a new object takes the counter, and the counter never
\* goes down.
C1_Counted ==
    /\ Count(winmem, gli_windowlist) = Cardinality(winlive)
    /\ Visited(winmem, gli_windowlist) = winlive
    /\ Count(strmem, gli_streamlist) = Cardinality(strlive)
    /\ Visited(strmem, gli_streamlist) = strlive
    /\ Count(frefmem, gli_filereflist) = Cardinality(freflive)
    /\ Visited(frefmem, gli_filereflist) = freflive
    /\ \A w \in WinSlots : winmem[w].id < gli_window_id_counter
    /\ \A t \in StrSlots : strmem[t].id < gli_stream_id_counter
    /\ \A f \in FrefSlots : frefmem[f].id < gli_fileref_id_counter

C1_Fresh ==
    /\ gli_window_id_counter' >= gli_window_id_counter
    /\ gli_stream_id_counter' >= gli_stream_id_counter
    /\ gli_fileref_id_counter' >= gli_fileref_id_counter
    /\ \A w \in winlive' \ winlive : winmem'[w].id = gli_window_id_counter
    /\ \A t \in strlive' \ strlive : strmem'[t].id = gli_stream_id_counter
    /\ \A f \in freflive' \ freflive : frefmem'[f].id = gli_fileref_id_counter

C1_Registry == []C1_Counted /\ [][C1_Fresh]_vars

\* C2: the program that writes L <= C bytes from position 0 to a read-write
\* memory stream on an array of C bytes, seeks to position 0 and reads L bytes
\* gets the bytes it wrote, in order: glk_get_buffer_stream() returns L and
\* stores them, and the k-th glk_get_char_stream() returns the k-th of them.
C2_RoundTrip ==
    pc = "running" =>
      \A t \in strlive :
        /\ call = "glk_get_buffer_stream" =>
             /\ ret = Len(prog.data)
             /\ SubSeq(rbuf, 1, Len(prog.data)) = prog.data
        /\ call = "glk_get_char_stream" =>
             /\ strmem[t].readcount \in 1..Len(prog.data)
             /\ ret = prog.data[strmem[t].readcount]

C2_Witness ==
    /\ call = "glk_get_buffer_stream"
    /\ prog.data = <<233, 0, 65>>
    /\ Cap(prog.buf) = 3
    /\ ret = 3

\* C3: on a writable memory stream of capacity C, a byte written while the cursor
\* is C leaves the array and the cursor as they are and adds one to the write
\* count; and after L > C bytes are written from position 0 the cursor is C, the
\* write count has grown by L and the first C bytes of the array are the first C
\* bytes written.
C3_Step ==
    \A t \in strlive :
      (strmem[t].type = 1 /\ strmem[t].writable = 1
         /\ (strmem[t].buf # NULL \/ strmem[t].buf_uni # NULL)) =>
        /\ \A ch \in Bytes :
             (glk_put_char_stream(t, ch) /\ strmem[t].bufptr = strmem[t].buflen) =>
               /\ bufmem' = bufmem
               /\ strmem'[t].bufptr = strmem[t].bufptr
               /\ strmem'[t].writecount = strmem[t].writecount + 1
        /\ \A d \in Datas :
             (glk_put_buffer_stream(t, d) /\ strmem[t].bufptr = 0
                /\ Len(d) > strmem[t].buflen) =>
               /\ strmem'[t].bufptr = strmem[t].buflen
               /\ strmem'[t].writecount = strmem[t].writecount + Len(d)
               /\ strmem[t].buf # NULL =>
                    SubSeq(bufmem'[strmem[t].buf], 1, strmem[t].buflen)
                      = SubSeq(d, 1, strmem[t].buflen)

C3_Dropped == [][C3_Step]_vars

\* C4: glk_window_close(W) on an open window leaves the window and its stream in
\* neither list and not allocated, and no stream that is listed then, or made
\* later, has the identifier of that stream; and glk_window_close(W) on a window
\* closed before does nothing: the registry is as it was and the process goes
\* on.
C4_Step ==
    \A w \in WinSlots :
      /\ (w \in winlive /\ glk_window_close(w)) =>
           LET t == winmem[w].str
           IN /\ w \notin winlive'
              /\ w \notin Visited(winmem', gli_windowlist')
              /\ t # NULL =>
                   /\ t \notin strlive'
                   /\ t \notin Visited(strmem', gli_streamlist')
                   /\ \A u \in strlive' : strmem'[u].id # strmem[t].id
                   /\ strmem[t].id < gli_stream_id_counter'
      /\ (w \in StaleWindows /\ glk_window_close(w)) =>
           /\ pc' = pc
           /\ UNCHANGED registry

C4_CloseOnce == [][C4_Step]_vars

\* C5: glk_select() serving a byte line request on window W with an array of
\* capacity c >= 1, when the next line of standard input has n characters,
\* stores the first min(n, c-1) of them and a terminator in the array, returns
\* a line event for W with val1 min(n, c-1), and clears the request of W.
C5_Step ==
    \A in \in {Hello, LongLine} :
      (/\ pending = <<>>
       /\ Served # NULL
       /\ glk_select(in)) =>
        LET w == winmem[Served]
            m == Min(Len(in), w.line_buflen - 1)
        IN (w.line_request # 0 /\ w.line_buffer # NULL /\ w.line_buflen >= 1) =>
             /\ Array(bufmem', w.line_buffer, m + 1) = SubSeq(in, 1, m) \o <<0>>
             /\ event' = [type |-> "evtype_LineInput", win |-> Served, val1 |-> m,
                          val2 |-> 0]
             /\ winmem'[Served].line_request = 0

C5_LineDelivered == [][C5_Step]_vars

\* C6: whatever capacity maxlen >= 0 a line request gave and whatever the line,
\* glk_select() stores at most maxlen bytes in the array: the array of a request,
\* given with its true size, never holds bytes behind its end.
C6_Clamped == \A b \in Bufs : Len(bufmem[b]) <= Cap(b)

\* C7: a glk_select() that finds the end of standard input writes one exit frame
\* and ends the process; and however the process ends (glk_main() returning,
\* glk_exit(), the end of input in glk_select()) standard output holds the exit
\* frame once, as its last frame, and nothing happens after it.
C7_State ==
    /\ stdout.nexit <= 1
    /\ ~stdout.afterExit
    /\ pc = "exited" => (stdout.nexit = 1 /\ stdout.last = "exit")

C7_Step ==
    /\ pc # "exited"
    /\ (Served # NULL /\ pending = <<>> /\ glk_select(EndOfInput)) =>
         /\ pc' = "exited"
         /\ stdout'.nexit = stdout.nexit + 1
         /\ lastOut'[Len(lastOut')].type = "exit"
    /\ call' = "glk_exit" =>
         /\ pc' = "exited"
         /\ lastOut' = <<Frame("exit", 0, "", 0)>>

C7_ExitOnce == []C7_State /\ [][C7_Step]_vars

C7_Witness ==
    /\ pc = "exited"
    /\ call = "glk_select"
    /\ stdout.nexit = 1
    /\ Len(lastOut) = 2

\* C8: standard output holds the init frame once and as its first frame, and
\* nothing is called before main() has written it.
C8_State ==
    /\ stdout.ninit <= 1
    /\ stdout.first \in {"none", "init"}
    /\ pc = "start" => (stdout = NoOutput /\ call = "none")
    /\ pc # "start" => (stdout.ninit = 1 /\ stdout.first = "init")

C8_Step ==
    pc = "start" =>
      /\ call' = "main"
      /\ lastOut' = <<Frame("init", 0, "", 0)>>
      /\ UNCHANGED registry

C8_InitFirst == []C8_State /\ [][C8_Step]_vars

C8_Witness ==
    /\ stdout.first = "init"
    /\ stdout.ninit = 1
    /\ stdout.last = "input"
    /\ call = "glk_select"

\* C9: glk_gestalt() changes no state and returns a value fixed by its selector
\* and value, whatever was called before: 1 for Unicode, Hyperlinks and
\* DateTime, 0 for Sound, Graphics, MouseInput and Timer.
C9_Step ==
    call' = "glk_gestalt" =>
      /\ UNCHANGED <<pc, registry, caller, pending, stdout, prog, files>>
      /\ lastOut' = <<>>
      /\ \E sel \in Selectors : \E v \in GestaltVals \cup {0} :
           /\ glk_gestalt(sel, v)
           /\ sel \in {"gestalt_Unicode", "gestalt_Hyperlinks", "gestalt_DateTime"}
                => ret' = 1
           /\ sel \in {"gestalt_Sound", "gestalt_Graphics", "gestalt_MouseInput",
                       "gestalt_Timer"} => ret' = 0
           /\ sel = "gestalt_Version" => ret' = gestalt_Version_Value
           /\ sel = "gestalt_LineInput" => ret' = (IF Latin1Printable(v) THEN 1 ELSE 0)

C10_Step ==
    /\ (call' = "glk_select" /\ \A w \in winlive : ~HasRequest(w)) =>
         /\ event' = NoEvent
         /\ lastOut' = <<>>
         /\ UNCHANGED <<pc, registry, bufmem, pending, stdout>>
    /\ call' = "glk_select_poll" =>
         /\ event' = NoEvent
         /\ lastOut' = <<>>
         /\ UNCHANGED <<pc, registry, bufmem, pending, stdout>>

C10_NoEvent == [][C10_Step]_vars

C10_Witness ==
    /\ call = "glk_select_poll"
    /\ event = NoEvent
    /\ \E w \in winlive : winmem[w].line_request # 0 /\ winmem[w].char_request # 0

\* C11: a glk_select() that finds a window with a pending request writes one
\* input frame, first and whatever standard input holds, naming the window it
\* serves; the frame says "line" exactly when the call returns a line event for
\* that window and "char" exactly when it returns a character event for it.
C11_Step ==
    (call' = "glk_select" /\ Served # NULL) =>
      /\ {i \in 1..Len(lastOut') : lastOut'[i].type = "input"} = {1}
      /\ lastOut'[1].id = winmem[Served].id
      /\ pc' = "running" =>
           /\ lastOut'[1].op = "line" <=>
                (event'.type = "evtype_LineInput" /\ event'.win = Served)
           /\ lastOut'[1].op = "char" <=>
                (event'.type = "evtype_CharInput" /\ event'.win = Served)

C11_FrameNamesServed == [][C11_Step]_vars


\* C12: a glk_select() that serves a character request of window W, with a new
\* line of standard input before it, returns a character event for W whose
\* value is the first character of the line, or keycode_Return when the line is
\* empty, clears the character request of W, and leaves nothing of the line on
\* standard input.
C12_Step ==
    \A in \in ShortLines \cup {LongLine} :
      (/\ pending = <<>>
       /\ Served # NULL
       /\ glk_select(in)) =>
        LET w == winmem[Served]
        IN (w.char_request # 0 /\ w.line_request = 0) =>
             /\ event' = [type |-> "evtype_CharInput", win |-> Served,
                          val1 |-> IF in = <<>> THEN keycode_Return ELSE in[1],
                          val2 |-> 0]
             /\ winmem'[Served].char_request = 0
             /\ pending' = <<>>

C12_CharDelivered == [][C12_Step]_vars


\* C13: after glk_cancel_line_event(W) window W has no line request pending and
\* after glk_cancel_char_event(W) no character request, byte or code-point; a
\* cancel with no such request pending changes no state; and a glk_select()
\* with no request pending on any window returns the empty event, writes no
\* frame and takes nothing from standard input.
C13_Step ==
    /\ \A w \in winlive :
         glk_cancel_line_event(w) =>
           /\ winmem'[w].line_request = 0
           /\ winmem'[w].line_request_uni = 0
           /\ (winmem[w].line_request = 0 /\ winmem[w].line_request_uni = 0) =>
                UNCHANGED <<pc, registry, bufmem, pending, stdout>>
    /\ \A w \in winlive :
         glk_cancel_char_event(w) =>
           /\ winmem'[w].char_request = 0
           /\ winmem'[w].char_request_uni = 0
           /\ (winmem[w].char_request = 0 /\ winmem[w].char_request_uni = 0) =>
                UNCHANGED <<pc, registry, bufmem, pending, stdout>>
    /\ (call' = "glk_select" /\ \A w \in winlive : ~HasRequest(w)) =>
         /\ event' = NoEvent
         /\ lastOut' = <<>>
         /\ UNCHANGED pending

C13_Cancelled == [][C13_Step]_vars


\* C14: a window holds the array of a line request only while the request is
\* pending: after glk_cancel_line_event(W) window W holds neither a byte nor a
\* code-point array, after a glk_select() that returns a line event the window
\* of the event holds no byte array, a new line request leaves the window
\* holding the new array of its variant, and the only call that stores in an
\* array is the glk_select() that serves the pending byte request holding it.
C14_Step ==
    /\ \A w \in winlive :
         glk_cancel_line_event(w) =>
           /\ winmem'[w].line_buffer = NULL
           /\ winmem'[w].line_buffer_uni = NULL
    /\ (call' = "glk_select" /\ event'.type = "evtype_LineInput") =>
         winmem'[event'.win].line_buffer = NULL
    /\ \A w \in winlive, b \in Bufs :
         /\ glk_request_line_event(w, b, Cap(b)) => winmem'[w].line_buffer = b
         /\ glk_request_line_event_uni(w, b, MaxUni) => winmem'[w].line_buffer_uni = b
    /\ \A b \in Bufs :
         bufmem'[b] # bufmem[b] =>
           /\ call' = "glk_select"
           /\ Served # NULL
           /\ winmem[Served].line_request # 0
           /\ winmem[Served].line_buffer = b

C14_Borrowed == [][C14_Step]_vars


\* C15: after any opens and closes of windows and streams and any
\* glk_stream_set_current() and glk_set_window() on live handles, the current
\* stream is NULL or a live stream; and closing the stream it names, or the
\* window that owns that stream, leaves it NULL.
C15_State == pc = "running" => gli_currentstr \in strlive \cup {NULL}

C15_Step ==
    /\ \A s \in strlive :
         (gli_currentstr = s /\ glk_stream_close(s)) => gli_currentstr' = NULL
    /\ \A w \in winlive :
         (gli_currentstr # NULL /\ gli_currentstr = winmem[w].str /\ glk_window_close(w)) =>
           gli_currentstr' = NULL

C15_CurrentLive == []C15_State /\ [][C15_Step]_vars


\* C16: a call that writes text to a window's stream writes one frame, however
\* many bytes it writes (glk_put_char, glk_put_string, glk_put_buffer and
\* glk_put_char_uni with the window's stream current); opening a window writes
\* one frame and clearing a window writes one frame.
WindowStream(t) == t \in strlive /\ strmem[t].type = 0 /\ strmem[t].win # NULL

C16_Step ==
    /\ (/\ WindowStream(gli_currentstr)
        /\ \/ \E ch \in Bytes : glk_put_char(ch)
           \/ \E d \in Strings \ {<<>>} : glk_put_string(d)
           \/ \E d \in Datas : glk_put_buffer(d)
           \/ \E ch \in CodePoints : glk_put_char_uni(ch)) =>
         Len(lastOut') = 1
    /\ (call' = "glk_window_open" /\ ret' # NULL) => Len(lastOut') = 1
    /\ call' = "glk_window_clear" => Len(lastOut') = 1

C16_OneFrame == [][C16_Step]_vars


\* C17: glk_fileref_destroy() leaves the files that exist as they are, the file
\* its reference names among them; no call but glk_fileref_delete_file() takes
\* a file away, and that one removes the file its reference names and leaves
\* the reference live and the list of references as it was.
C17_Step ==
    /\ \A f \in freflive :
         glk_fileref_destroy(f) =>
           /\ files' = files
           /\ frefmem[f].filename \in files' <=> frefmem[f].filename \in files
    /\ files' # files => call' = "glk_fileref_delete_file"
    /\ \A f \in freflive :
         glk_fileref_delete_file(f) =>
           /\ files' = files \ {frefmem[f].filename}
           /\ f \in freflive'
           /\ UNCHANGED filerefs

C17_FilesKept == [][C17_Step]_vars

C17_Witness ==
    /\ call = "glk_fileref_destroy"
    /\ \E f \in FrefSlots \ freflive : frefmem[f].filename \in files
    /\ files # Names


\* C18: a call that takes a window, stream or file reference handle and is
\* given NULL returns 0, NULL or -1 and leaves the registry as it was: the
\* three lists, every request, the identifier counters and the current stream.
C18_Step ==
    (NullStateless \/ NullCurrent \/ NullIterate) =>
      /\ ret' \in {0, 0 - 1}
      /\ UNCHANGED <<pc, registry>>

C18_NullNeutral == [][C18_Step]_vars

\* C18 as amended: the same of every such call but the three iterate
\* functions, glk_set_window() and glk_stream_set_current(); given NULL,
\* the iterate functions return the head of their list and change nothing, and
\* glk_set_window() and glk_stream_set_current() leave the current stream
\* NULL and change nothing else.
C18_AmendedStep ==
    /\ NullStateless =>
         /\ ret' \in {0, 0 - 1}
         /\ ret' = 0 - 1 <=> call' = "glk_get_char_stream"
         /\ UNCHANGED <<pc, registry>>
    /\ NullCurrent =>
         /\ gli_currentstr' = NULL
         /\ UNCHANGED <<pc, windows, filerefs, strmem, strlive, gli_streamlist,
                        gli_stream_id_counter>>
    /\ NullIterate =>
         /\ ret' = (CASE call' = "glk_window_iterate" -> gli_windowlist
                      [] call' = "glk_stream_iterate" -> gli_streamlist
                      [] call' = "glk_fileref_iterate" -> gli_filereflist)
         /\ UNCHANGED <<pc, registry>>

C18_NullAmended == [][C18_AmendedStep]_vars

C18_Witness ==
    /\ call = "glk_request_char_event"
    /\ ret = 0
    /\ pc = "running"
    /\ gli_currentstr # NULL
    /\ freflive # {}
    /\ winlive # {}
    /\ \A w \in winlive : winmem[w].char_request = 0


\* C19: no call makes the read counter or the write counter of a live stream
\* smaller; a write call adds to the write counter of a writable stream one for
\* each byte it is given, stored or not, and nothing for a stream that is not
\* writable; and glk_stream_close() and glk_window_close() report the
\* counters the closed stream has when it is closed.
C19_Step ==
    /\ \A t \in strlive \cap strlive' :
         /\ strmem'[t].readcount >= strmem[t].readcount
         /\ strmem'[t].writecount >= strmem[t].writecount
    /\ \A t \in strlive :
         LET given == IF strmem[t].writable # 0 THEN 1 ELSE 0 IN
         /\ glk_put_char_stream(t, 65) =>
              strmem'[t].writecount = strmem[t].writecount + given
         /\ \A d \in Datas :
              glk_put_buffer_stream(t, d) =>
                strmem'[t].writecount = strmem[t].writecount + given * Len(d)
    /\ \A t \in strlive :
         glk_stream_close(t) =>
           result' = [readcount |-> strmem[t].readcount, writecount |-> strmem[t].writecount]
    /\ \A w \in winlive :
         (winmem[w].str # NULL /\ glk_window_close(w)) =>
           result' = [readcount |-> strmem[winmem[w].str].readcount,
                      writecount |-> strmem[winmem[w].str].writecount]

C19_Counters == [][C19_Step]_vars

C19_Witness ==
    /\ call = "glk_window_close"
    /\ result.writecount > 1
    /\ \E t \in strlive : strmem[t].readcount > 0 /\ strmem[t].bufptr = 0


\* C20: glk_stream_set_position() on a memory stream of length N leaves the
\* cursor at the position meant (pos, cursor + pos or N + pos, by the seek
\* mode) brought into 0..N: 0 when it is below 0, N when it is above N.
C20_Step ==
    \A t \in strlive, pos \in {0 - 1, 0, 1}, m \in SeekModes :
      (strmem[t].type = 1 /\ glk_stream_set_position(t, pos, m)) =>
        LET N == strmem[t].buflen
            target == IF m = seekmode_Current THEN strmem[t].bufptr + pos
                      ELSE IF m = seekmode_End THEN N + pos
                      ELSE pos
        IN strmem'[t].bufptr = IF target < 0 THEN 0 ELSE IF target > N THEN N ELSE target

C20_Seek == [][C20_Step]_vars


\* C21: the cursor of a memory stream is never beyond the length of its buffer,
\* whatever was written, read and sought; and a read from a readable memory
\* stream whose cursor is at the end leaves the cursor there and returns -1
\* from glk_get_char_stream() and 0 from glk_get_buffer_stream() and
\* glk_get_line_stream().
C21_State ==
    \A t \in strlive :
      strmem[t].type = 1 => (0 <= strmem[t].bufptr /\ strmem[t].bufptr <= strmem[t].buflen)

C21_Step ==
    \A t \in strlive :
      (strmem[t].type = 1 /\ strmem[t].readable # 0 /\ strmem[t].bufptr = strmem[t].buflen) =>
        /\ glk_get_char_stream(t) => (ret' = 0 - 1 /\ strmem'[t].bufptr = strmem[t].bufptr)
        /\ glk_get_buffer_stream(t, 2) => (ret' = 0 /\ strmem'[t].bufptr = strmem[t].bufptr)
        /\ glk_get_line_stream(t, 3) => (ret' = 0 /\ strmem'[t].bufptr = strmem[t].bufptr)

C21_EndOfData == []C21_State /\ [][C21_Step]_vars

C21_Witness ==
    /\ call = "glk_get_char_stream"
    /\ ret = 0 - 1
    /\ \E t \in strlive :
         /\ strmem[t].readable # 0
         /\ strmem[t].buflen > 0
         /\ strmem[t].bufptr = strmem[t].buflen
         /\ strmem[t].readcount > 1

\* C22: glk_stream_open_file() returns NULL when the mode is none of Write,
\* Read, ReadWrite and WriteAppend or when the file cannot be opened, and a call
\* that returns NULL leaves the stream list, the set of streams and the stream
\* id counter as they were.
C22_Step ==
    /\ \A p \in StrSlots \cup {NULL}, env \in BOOLEAN, f \in freflive, m \in OpenModes :
         (glk_stream_open_file(p, env, f, m, 5) /\ (m \notin FileModes \/ ~Opens(f, m, env)))
           => ret' = NULL
    /\ (call' = "glk_stream_open_file" /\ ret' = NULL) =>
         UNCHANGED <<strmem, strlive, gli_streamlist, gli_stream_id_counter>>

C22_NoStream == [][C22_Step]_vars

C22_Witness ==
    /\ call = "glk_stream_open_file"
    /\ ret = NULL
    /\ strlive # {}
    /\ gli_stream_id_counter = 2
    /\ \E f \in freflive : frefmem[f].filename \notin files

\* The UTF-8 encoding of a code point below 0x110000, by the table of the
\* standard: the payload bits of each byte by division.
C23_StandardUtf8(cp) ==
    IF cp < 128 THEN <<cp>>
    ELSE IF cp < 2048 THEN <<192 + (cp \div 64), 128 + (cp % 64)>>
    ELSE IF cp < 65536
    THEN <<224 + (cp \div 4096), 128 + ((cp \div 64) % 64), 128 + (cp % 64)>>
    ELSE <<240 + (cp \div 262144), 128 + ((cp \div 4096) % 64), 128 + ((cp \div 64) % 64),
           128 + (cp % 64)>>

\* What one code point written to the writable stream t has done: the write
\* count is up by the number of bytes, a window has one frame for each byte in
\* order, and an array has the bytes that fit from the cursor on.
C23_Fed(t, cp) ==
    LET s == strmem[t]
        bytes == C23_StandardUtf8(cp)
        n == IF cp < 128 THEN 1 ELSE IF cp < 2048 THEN 2 ELSE IF cp < 65536 THEN 3 ELSE 4
    IN /\ Len(bytes) = n
       /\ strmem'[t].writecount = s.writecount + n
       /\ s.type = 0 =>
            lastOut' = [i \in 1..n |-> Frame("update", winmem[s.win].id, "text", bytes[i])]
       /\ s.type = 1 =>
            /\ strmem'[t].bufptr = IF s.bufptr + n <= s.buflen THEN s.bufptr + n ELSE s.buflen
            /\ \A i \in 1..n : s.bufptr + i <= s.buflen => bufmem'[s.buf][s.bufptr + i] = bytes[i]

\* C23: one code point written with glk_put_char_uni() or
\* glk_put_char_stream_uni() passes 1 byte to the byte write path when it is
\* below 0x80, 2 below 0x800, 3 below 0x10000 and 4 otherwise, the write count
\* of a writable stream grows by that number, and the bytes are the UTF-8
\* encoding of the code point.
C23_Step ==
    \A cp \in Utf8Points :
      /\ (gli_currentstr # NULL /\ glk_put_char_uni(cp)) => C23_Fed(gli_currentstr, cp)
      /\ \A t \in strlive : glk_put_char_stream_uni(t, cp) => C23_Fed(t, cp)

C23_Utf8 == [][C23_Step]_vars

C23_Witness ==
    /\ call = "glk_put_char_stream_uni"
    /\ \E t \in strlive :
         /\ strmem[t].type = 1
         /\ strmem[t].writecount = 6
         /\ strmem[t].bufptr = 4
         /\ bufmem[strmem[t].buf] = <<194, 128, 240, 144>>

\* C24: a glk_select() that writes an input frame for window W and reads a line
\* returns an event other than evtype_None for W and clears the request it
\* announced, whichever of the four requests (character, line, and their
\* code-point forms) was the one pending on W.
C24_Step ==
    (call' = "glk_select" /\ Served # NULL /\ pc' = "running") =>
      LET w == winmem[Served]
          only(a, b, c, d) == a # 0 /\ b = 0 /\ c = 0 /\ d = 0
      IN /\ HasRequest(Served) => (event'.type # "evtype_None" /\ event'.win = Served)
         /\ only(w.char_request, w.line_request, w.char_request_uni, w.line_request_uni)
              => winmem'[Served].char_request = 0
         /\ only(w.line_request, w.char_request, w.char_request_uni, w.line_request_uni)
              => winmem'[Served].line_request = 0
         /\ only(w.char_request_uni, w.char_request, w.line_request, w.line_request_uni)
              => winmem'[Served].char_request_uni = 0
         /\ only(w.line_request_uni, w.char_request, w.line_request, w.char_request_uni)
              => winmem'[Served].line_request_uni = 0

C24_RequestServed == [][C24_Step]_vars

\* The windows with a request pending, and the one of them created last.
C25_Pending == {w \in winlive : HasRequest(w)}

C25_Latest == CHOOSE w \in C25_Pending : \A v \in C25_Pending : winmem[v].id <= winmem[w].id

\* C25: with requests pending on several windows glk_select() serves the one
\* created last, the one with the greatest id: its frame names that window and
\* an event it returns is for that window; the request flags, the line buffer
\* reference and the lent array of every other window are left as they were.
C25_Step ==
    (call' = "glk_select" /\ C25_Pending # {}) =>
      /\ lastOut'[1].type = "input"
      /\ lastOut'[1].id = winmem[C25_Latest].id
      /\ event'.type # "evtype_None" => event'.win = C25_Latest
      /\ \A v \in winlive \ {C25_Latest} :
           /\ winmem'[v] = winmem[v]
           /\ winmem[v].line_buffer # NULL =>
                bufmem'[winmem[v].line_buffer] = bufmem[winmem[v].line_buffer]

C25_LatestServed == [][C25_Step]_vars

C25_Witness ==
    /\ call = "glk_select"
    /\ event.type = "evtype_LineInput"
    /\ event.win \in winlive
    /\ \E v \in winlive :
         /\ winmem[v].id < winmem[event.win].id
         /\ winmem[v].line_request # 0
         /\ winmem[v].line_buffer # NULL
         /\ winmem[v].char_request # 0

\* One list in block memory mem with head head and allocated blocks live: the
\* head has no predecessor, each successor points back, the walk from the head
\* meets no block twice and no freed block, and it meets every allocated block,
\* in strictly decreasing order of id.
C26_List(mem, head, live) ==
    LET blocks == Walk(mem, head, Cardinality(DOMAIN mem) + 1)
    IN /\ head # NULL => mem[head].prev = NULL
       /\ \A i \in 1..Len(blocks) :
            /\ blocks[i] \in live
            /\ mem[blocks[i]].next # NULL => mem[mem[blocks[i]].next].prev = blocks[i]
            /\ \A j \in 1..Len(blocks) : i < j => mem[blocks[i]].id > mem[blocks[j]].id
       /\ {blocks[i] : i \in 1..Len(blocks)} = live

\* C26: the window list, the stream list and the file reference list are each
\* consistent, and iterating from the absent cursor visits every live object
\* once, in strictly decreasing order of id, and ends with the absent handle.
C26_Lists ==
    /\ C26_List(winmem, gli_windowlist, winlive)
    /\ C26_List(strmem, gli_streamlist, strlive)
    /\ C26_List(frefmem, gli_filereflist, freflive)

\* C27: closing a stream closes no window, and the stream reference of every
\* live window names a live stream (none, if the window was opened without
\* one), also after glk_stream_close() on the stream that
\* glk_window_get_stream() returned.
C27_State ==
    pc = "running" => \A w \in winlive : winmem[w].str \in strlive \cup {NULL}

C27_Step ==
    \A s \in strlive : glk_stream_close(s) => winlive' = winlive

C27_WindowStreamLive == []C27_State /\ [][C27_Step]_vars

\* C28: the echo stream reference of a live window is NULL or a live stream:
\* once the stream given to glk_window_set_echo_stream() is closed,
\* glk_window_get_echo_stream() does not return it.
C28_State ==
    pc = "running" => \A w \in winlive : winmem[w].echostr \in strlive \cup {NULL}

C28_Step ==
    \A w \in winlive : glk_window_get_echo_stream(w) => ret' \in strlive \cup {NULL}

C28_EchoLive == []C28_State /\ [][C28_Step]_vars

\* C29: a glk_select() that serves a request takes one whole line from
\* standard input, however long the line: nothing of a line is ever left
\* behind, so that the next request is served from the start of the next line.
C29_State == pc = "running" => pending = <<>>

C29_Step ==
    \A in \in {Hello, LongLine} :
      (pending = <<>> /\ Served # NULL /\ glk_select(in)) =>
        (pc' = "running" => pending' = <<>>)

C29_WholeLine == []C29_State /\ [][C29_Step]_vars

\* C30: a memory stream opened with glk_stream_open_memory_uni() for reading
\* and writing keeps what is written to it: once 'A's are written from its start
\* and it is sought to position 0, a read returns 'A'; and a code-point write
\* to a stream handle (glk_put_char_stream_uni, glk_put_string_stream_uni,
\* glk_put_buffer_stream_uni) leaves the current output stream what it was.
C30_CurrentKept ==
    call' \in {"glk_put_char_stream_uni", "glk_put_string_stream_uni",
               "glk_put_buffer_stream_uni"} => gli_currentstr' = gli_currentstr

C30_Step ==
    /\ \A t \in strlive :
         (/\ strmem[t].is_unicode = 1
          /\ strmem[t].readable # 0
          /\ strmem[t].writecount >= 1
          /\ strmem[t].buflen >= 1
          /\ strmem[t].bufptr = 0
          /\ glk_get_char_stream_uni(t)) => ret' = 65
    /\ C30_CurrentKept

C30_UniStored == [][C30_Step]_vars

\* A write to a stream that is not writable changes nothing: the stream block,
\* the caller's arrays and standard output are as before.
C31_WriteRefused ==
    \A t \in strlive :
      (/\ strmem[t].writable = 0
       /\ \/ \E ch \in Bytes \cup {65} : glk_put_char_stream(t, ch)
          \/ \E d \in Datas : glk_put_buffer_stream(t, d)) =>
        /\ strmem' = strmem
        /\ bufmem' = bufmem
        /\ lastOut' = <<>>

\* A read from a stream that is not readable returns -1 (a character) or 0 (a
\* buffer) and changes nothing.
C31_ReadRefused ==
    \A t \in strlive :
      strmem[t].readable = 0 =>
        /\ glk_get_char_stream(t) => (ret' = 0 - 1 /\ strmem' = strmem /\ rbuf' = rbuf)
        /\ glk_get_buffer_stream(t, 2) => (ret' = 0 /\ strmem' = strmem /\ rbuf' = rbuf)

\* A read from a readable stream adds to its read counter the number of bytes
\* it returns: one or none for glk_get_char_stream(), the count returned for
\* glk_get_buffer_stream().
C31_ReadCounted ==
    \A t \in strlive :
      strmem[t].readable # 0 =>
        /\ glk_get_char_stream(t) =>
             strmem'[t].readcount = strmem[t].readcount + (IF ret' = 0 - 1 THEN 0 ELSE 1)
        /\ glk_get_buffer_stream(t, 2) =>
             strmem'[t].readcount = strmem[t].readcount + ret'

\* C31: the direction flags of a stream are enforced without side effects (a
\* write to a stream that is not writable and a read from a stream that is not
\* readable change nothing, the read returning -1 or 0), and the read counter
\* of a readable stream grows only by the bytes returned to the caller, for
\* glk_get_char_stream() as for glk_get_buffer_stream().
C31_Step ==
    /\ C31_WriteRefused
    /\ C31_ReadRefused
    /\ C31_ReadCounted

C31_Directions == [][C31_Step]_vars

====
